---- MODULE Spec2Model ----
(***************************************************************************)
(* A model of the UnitedDeployment reconciliation core of                  *)
(* yurt-app-manager: the slow-start batcher (util/tools.go), the revision  *)
(* manager (constructUnitedDeploymentRevisions and its helpers) and the    *)
(* pool provisioning of managePools / managePoolProvision.                 *)
(***************************************************************************)
EXTENDS Integers, Sequences, FiniteSets, TLC

(***************************************************************************)
(* Bounds of the model.                                                    *)
(***************************************************************************)
MaxCount == 5
MaxInitialBatch == 3
NumContents == 3
MaxLimit == 2
MaxRevision == 4
MaxClock == 0
MaxCollision == 2
NumPools == 3
MaxReplicas == 2
NumPoolRevisions == 2
MaxEdits == 2
MaxFaults == 2

VARIABLES
    \* ---- SlowStartBatch (util/tools.go) ----
    sbCount,          \* argument count
    sbInitial,        \* argument initialBatchSize
    remaining,        \* local remaining
    successes,        \* local successes
    index,            \* local index
    batchSize,        \* loop variable batchSize
    loopI,            \* inner loop variable i
    errCh,            \* buffered channel errCh of the current batch
    goroutines,       \* idx -> "spawned" | "running" | "done", the current batch
    bpc,              \* position of the caller of SlowStartBatch
    sbRet,            \* <<successes, err>> once returned
    \* history of the run
    batches,          \* sizes of the batches started, in order
    invoked,          \* indices fn was invoked with, in order of invocation
    fnErr,            \* idx -> error returned by fn(idx), for finished calls
    batchOf,          \* idx -> number of the batch that spawned it
    \* ---- the revision manager (constructUnitedDeploymentRevisions) ----
    revStore,         \* the ControllerRevision objects of ud in the store
    udTemplate,       \* content of ud.Spec.WorkloadTemplate (NoTemplate: no kind)
    udLimit,          \* *ud.Spec.RevisionHistoryLimit
    stCurrentRevision,\* ud.Status.CurrentRevision
    stCollisionCount, \* ud.Status.CollisionCount (0 when nil)
    now,              \* the store's clock, stamped on created objects
    rpc,              \* position of the pass
    revisions,        \* local revisions (sorted, then cleaned)
    exceedNum,        \* local of cleanExpiredRevision
    cleanI,           \* loop index i of cleanExpiredRevision
    collisionCount,   \* local collisionCount
    candidate,        \* the revision built by newRevision
    revRet,           \* the values returned by the pass
    \* history of the pass
    sortedHistory,    \* the owned history as sorted at line 99
    deletedNames,     \* names Delete was issued for, in order
    attempts,         \* the Create attempts of createControllerRevision
    createdNames,     \* names of the objects created by this pass
    updatedNames,     \* names of the objects updated by this pass
    prevUpdate,       \* updateRevision name of the previous pass, if it
                      \* succeeded and the template is unchanged since
    \* ---- the pools (managePools, managePoolProvision) ----
    poolStore,        \* the live workload objects owned by ud
    udKind,           \* the kind of ud.Spec.WorkloadTemplate
    udPools,          \* ud.Spec.Topology.Pools and nextPatches:
                      \* pool name -> [Replicas, Patch]
    udRevision,       \* expectedRevision.Name
    edits,            \* number of edits made by the user
    faults,           \* number of store requests that failed or timed out
    switched,         \* the kind was switched since the last pass
    stProvisioned,    \* ud.Status.Conditions: status of PoolProvisioned
    stUpdated,        \* ud.Status.Conditions: status of PoolUpdated
    ppc,              \* position of the pass
    nameToPool,       \* argument nameToPool
    creates,          \* local creates
    deletes,          \* local deletes
    errs,             \* local errs
    delI,             \* index of the loop over deletes
    cleanList,        \* pools returned by GetAllPools of the other kind
    cleanupI,           \* index of the loop over cleanList
    cleaned,          \* local cleaned
    cleanListed,      \* GetAllPools of the other kind returned no error
    provRet,          \* the values managePoolProvision returned
    needUpdate,       \* local needUpdate of managePools
    mpRet,            \* the values managePools returned
    \* history of the pass
    createCalls,      \* pool names CreatePool was called for, in order
    createResults,    \* idx -> what CreatePool answered to fn(idx)
    applyErrs,        \* the calls idx of the creates in which
                      \* ApplyPoolTemplate returned an error
    updateAttempts,   \* idx -> the errors of the attempts of UpdatePool so far
    postUpdates,      \* the calls idx in which UpdatePool invoked PostUpdate
    deleteCalls,      \* pool names DeletePool was called for (line 176)
    cleanCalls,       \* objects DeletePool was called for (line 206)
    updateCalls,      \* pool names UpdatePool was called for, in order
    otherLive         \* live objects of the other kind when line 198 ran

sbVars == <<sbCount, sbInitial, remaining, successes, index, batchSize, loopI,
            errCh, goroutines, bpc, sbRet, batches, invoked, fnErr, batchOf>>

revVars == <<revStore, udTemplate, udLimit, stCurrentRevision, stCollisionCount,
             now, rpc, revisions, exceedNum, cleanI, collisionCount, candidate,
             revRet, sortedHistory, deletedNames, attempts, createdNames,
             updatedNames, prevUpdate>>

udVars == <<udKind, udPools, udRevision, edits, faults, switched,
           stProvisioned, stUpdated>>

passLocals == <<nameToPool, creates, deletes, errs, delI, cleanList, cleanupI,
                cleaned, cleanListed, provRet, needUpdate, mpRet>>

passLogs == <<createCalls, createResults, applyErrs, updateAttempts, postUpdates, deleteCalls, cleanCalls,
              updateCalls, otherLive>>

poolVars == <<poolStore, udVars, ppc, passLocals, passLogs>>

vars == <<sbVars, revVars, poolVars>>

(***************************************************************************)
(* Errors are sequences: the nil error is the empty one, and the error     *)
(* returned by the call with index idx carries idx.                        *)
(***************************************************************************)
Nil == <<>>

\* ud.Status.Conditions has no condition of a type.
NoStatus == "None"
ErrOfCall(idx) == <<idx>>

EmptyMap == [x \in {} |-> 0]

\* integer.IntMin
IntMin(a, b) == IF a < b THEN a ELSE b

(***************************************************************************)
(* SlowStartBatch                                                          *)
(***************************************************************************)

\* batchSize = integer.IntMin(2*batchSize, remaining)
MutNextBatchSizeLinear(size, rem) == IntMin(size + 1, rem)
NextBatchSize(size, rem) == IntMin(2 * size, rem)

\* batchSize := integer.IntMin(remaining, initialBatchSize)
FirstBatchSize(cnt, initial) == IntMin(cnt, initial)

\* index++ after each go statement
MutNextIndexStuck(i) == i
NextIndex(i) == i + 1

\* curSuccesses := batchSize - len(errCh)
MutCurSuccessesAll(size, ch) == size
CurSuccesses(size, ch) == size - Len(ch)

\* if len(errCh) > 0
MutBatchFailedNever(ch) == FALSE
BatchFailed(ch) == Len(ch) > 0

\* return successes, <-errCh
MutReturnedErrNil(ch) == Nil
ReturnedErr(ch) == Head(ch)

\* The state in which no SlowStartBatch runs.
SBIdle ==
    /\ sbCount = 0 /\ sbInitial = 0
    /\ remaining = 0 /\ successes = 0 /\ index = 0
    /\ batchSize = 0 /\ loopI = 0
    /\ errCh = <<>> /\ goroutines = EmptyMap
    /\ bpc = "idle" /\ sbRet = <<>>
    /\ batches = <<>> /\ invoked = <<>>
    /\ fnErr = EmptyMap /\ batchOf = EmptyMap

\* Lines 43-46: the locals and the for statement's init and first test.
SBEnter(cnt, initial) ==
    /\ sbCount' = cnt
    /\ sbInitial' = initial
    /\ remaining' = cnt
    /\ successes' = 0
    /\ index' = 0
    /\ batchSize' = FirstBatchSize(cnt, initial)
    /\ loopI' = 0
    /\ errCh' = <<>>
    /\ goroutines' = EmptyMap
    /\ batches' = IF batchSize' > 0 THEN <<batchSize'>> ELSE <<>>
    /\ invoked' = <<>>
    /\ fnErr' = EmptyMap
    /\ batchOf' = EmptyMap
    /\ IF batchSize' > 0
       THEN bpc' = "spawn" /\ sbRet' = <<>>
       ELSE bpc' = "returned" /\ sbRet' = <<0, Nil>>

\* Lines 50-58: one iteration of the inner loop: go func(idx){...}(index); index++
SBSpawn ==
    /\ bpc = "spawn"
    /\ loopI < batchSize
    /\ goroutines' = [x \in DOMAIN goroutines \cup {index} |->
                        IF x = index THEN "spawned" ELSE goroutines[x]]
    /\ batchOf' = [x \in DOMAIN batchOf \cup {index} |->
                        IF x = index THEN Len(batches) ELSE batchOf[x]]
    /\ index' = NextIndex(index)
    /\ loopI' = loopI + 1
    /\ bpc' = IF loopI + 1 < batchSize THEN "spawn" ELSE "wait"
    /\ UNCHANGED <<sbCount, sbInitial, remaining, successes, batchSize, errCh,
                   sbRet, batches, invoked, fnErr>>

\* Line 53: a goroutine of the batch calls fn(idx).
SBInvoke(idx) ==
    /\ idx \in DOMAIN goroutines
    /\ goroutines[idx] = "spawned"
    /\ goroutines' = [goroutines EXCEPT ![idx] = "running"]
    /\ invoked' = Append(invoked, idx)
    /\ UNCHANGED <<sbCount, sbInitial, remaining, successes, index, batchSize,
                   loopI, errCh, bpc, sbRet, batches, fnErr, batchOf>>

\* Lines 52-55: fn(idx) returns err; a non-nil err is sent to errCh; wg.Done().
SBFnReturn(idx, err) ==
    /\ idx \in DOMAIN goroutines
    /\ goroutines[idx] = "running"
    /\ goroutines' = [goroutines EXCEPT ![idx] = "done"]
    /\ errCh' = IF err # Nil THEN Append(errCh, err) ELSE errCh
    /\ fnErr' = [x \in DOMAIN fnErr \cup {idx} |->
                    IF x = idx THEN err ELSE fnErr[x]]
    /\ UNCHANGED <<sbCount, sbInitial, remaining, successes, index, batchSize,
                   loopI, bpc, sbRet, batches, invoked, batchOf>>

\* wg.Wait() returns once every goroutine of the batch has called wg.Done().
MutWaitGroupDoneAtOnce == TRUE
WaitGroupDone == \A x \in DOMAIN goroutines : goroutines[x] = "done"

\* Lines 59-66 and the for statement's post statement and test.
SBJoin ==
    /\ bpc = "wait"
    /\ WaitGroupDone
    /\ LET curSuccesses == CurSuccesses(batchSize, errCh)
           rem == remaining - batchSize
           next == NextBatchSize(batchSize, rem)
       IN  /\ successes' = successes + curSuccesses
           /\ IF BatchFailed(errCh)
              THEN /\ sbRet' = <<successes', ReturnedErr(errCh)>>
                   /\ bpc' = "returned"
                   /\ UNCHANGED <<remaining, batchSize, loopI, errCh,
                                  goroutines, batches>>
              ELSE /\ remaining' = rem
                   /\ batchSize' = next
                   /\ loopI' = 0
                   /\ errCh' = <<>>
                   /\ goroutines' = EmptyMap
                   /\ IF next > 0
                      THEN /\ bpc' = "spawn"
                           /\ sbRet' = sbRet
                           /\ batches' = Append(batches, next)
                      ELSE /\ bpc' = "returned"
                           /\ sbRet' = <<successes', Nil>>
                           /\ batches' = batches
    /\ UNCHANGED <<sbCount, sbInitial, index, invoked, fnErr, batchOf>>

(***************************************************************************)
(* The pools.  A live workload object (a Deployment or a StatefulSet) is a *)
(* record                                                                  *)
(*   [kind, pool, revision, replicas, patch, matches]                      *)
(* pool: the pool-name label, revision: the revision-hash label,           *)
(* replicas: Spec.Replicas, patch: the applied-patch annotation, matches:  *)
(* whether the labels match ud.Spec.Selector.  Every object of poolStore   *)
(* carries a controller reference to ud.                                   *)
(***************************************************************************)
\* r.poolControls has one PoolControl per TemplateType
Kinds == {"StatefulSet", "Deployment"}

OtherKind(kind) == CHOOSE t \in Kinds : t # kind

PoolNames == 1..NumPools

\* Pool.Patch: no patch, a patch of the pod template, or a patch that also
\* sets the replica count
Patches == {"", "patch", "replicas"}

\* UnitedDeploymentPatches: the desired replicas and patch of one pool
Desired == [Replicas : 1..MaxReplicas, Patch : Patches]

PoolRevisions == 1..NumPoolRevisions

\* sets.String.List(): the members in ascending order
RECURSIVE SortedList(_)
SortedList(S) ==
    IF S = {} THEN <<>>
    ELSE LET least == CHOOSE x \in S : \A y \in S : x <= y
         IN  <<least>> \o SortedList(S \ {least})

\* slowStartInitialBatchSize
slowStartInitialBatchSize == 1

\* The replica count the patch that sets one carries.
PatchReplicaCount == MaxReplicas

\* PoolHasPatch
PoolHasPatch(patch) == patch # ""

\* CreateNewPatchedObject: the patch is merged over the object built so far;
\* a replica count in the patch replaces the one of the object.
MutPatchedReplicasIgnored(patch, replicas) == replicas
PatchedReplicas(patch, replicas) ==
    IF patch = "replicas" THEN PatchReplicaCount ELSE replicas

\* ApplyPoolTemplate on the object of CreatePool / UpdatePool: the labels of
\* the selector, the pool name and the revision, the replicas argument, and
\* then the patch of the pool's configuration if it has one.
ApplyPoolTemplate(kind, poolName, revision, replicas, patch) ==
    [kind |-> kind, pool |-> poolName, revision |-> revision,
     replicas |-> IF PoolHasPatch(patch)
                  THEN PatchedReplicas(patch, replicas) ELSE replicas,
     patch |-> patch, matches |-> TRUE]

\* ApplyPoolTemplate returns the error of CreateNewPatchedObject (lines
\* 152-158): the object has the labels, the selector and the replicas
\* argument, and neither the patch nor its annotation.
HalfBuilt(kind, poolName, revision, replicas) ==
    [kind |-> kind, pool |-> poolName, revision |-> revision,
     replicas |-> replicas, patch |-> "", matches |-> TRUE]

\* m.Client.List with LabelSelector: selector
ListWorkloads(store, kind) == {o \in store : o.kind = kind /\ o.matches}

\* manager.ClaimOwnedObjects: the owned objects that match the selector
ClaimOwnedObjects(selected) == {o \in selected : o.matches}

\* convertToPool
ConvertToPool(o) ==
    [Name |-> o.pool, Replicas |-> o.replicas, PatchInfo |-> o.patch,
     PoolRef |-> o]

\* GetAllPools
MutGetAllPoolsNone(store, kind) == {}
GetAllPools(store, kind) ==
    {ConvertToPool(o) : o \in ClaimOwnedObjects(ListWorkloads(store, kind))}

\* The map the reconciler hands to managePools: pool name -> Pool.
NameToPool(pools) ==
    [n \in {p.Name : p \in pools} |-> CHOOSE p \in pools : p.Name = n]

\* managePoolProvision, lines 114-121
MutCreatesAll(expectedPools, gotPools) == SortedList(expectedPools)
Creates(expectedPools, gotPools) ==
    SelectSeq(SortedList(expectedPools), LAMBDA n : n \notin gotPools)

\* managePoolProvision, lines 124-131
Deletes(expectedPools, gotPools) ==
    SelectSeq(SortedList(gotPools), LAMBDA n : n \notin expectedPools)

\* DeploymentAdapter.IsExpected: true when the revision label is NOT revision
IsExpected(pool, revision) == pool.PoolRef.revision # revision

\* managePools, lines 61-63
NeedsUpdate(pool, revision, next) ==
    \/ IsExpected(pool, revision)
    \/ pool.Replicas # next.Replicas
    \/ pool.PatchInfo # next.Patch

\* managePools, lines 56-66
MutNeedUpdateOfLive(exists, pools, revision, patches) ==
    LET live == NameToPool(GetAllPools(poolStore, udKind))
    IN  SelectSeq(SortedList(DOMAIN live \cap DOMAIN patches),
                  LAMBDA n : NeedsUpdate(live[n], revision, patches[n]))
NeedUpdate(exists, pools, revision, patches) ==
    SelectSeq(SortedList(exists),
              LAMBDA n : NeedsUpdate(pools[n], revision, patches[n]))

\* utilerrors.NewAggregate: nil for an empty list
MutNewAggregateFirst(list) == IF list = <<>> THEN <<>> ELSE <<list[1]>>
NewAggregate(list) == list

PoolLocalsCleared ==
    /\ nameToPool = EmptyMap /\ creates = <<>> /\ deletes = <<>>
    /\ errs = <<>> /\ delI = 0 /\ cleanList = <<>> /\ cleanupI = 0
    /\ cleaned = FALSE /\ provRet = <<>> /\ needUpdate = <<>>
    /\ mpRet = <<>> /\ createCalls = <<>> /\ deleteCalls = <<>>
    /\ createResults = EmptyMap /\ updateAttempts = EmptyMap
    /\ applyErrs = {}
    /\ postUpdates = <<>>
    /\ cleanCalls = <<>> /\ updateCalls = <<>> /\ otherLive = {}
    /\ cleanListed = FALSE

\* The state in which the pools are not modelled.
PoolIdle ==
    /\ poolStore = {} /\ udKind = "Deployment" /\ udPools = EmptyMap
    /\ udRevision = 1 /\ edits = 0 /\ faults = 0 /\ switched = FALSE
    /\ stProvisioned = NoStatus /\ stUpdated = NoStatus
    /\ ppc = "off"
    /\ PoolLocalsCleared

\* A request to the store fails or times out, within the budget of faults.
Fault(failed) ==
    IF failed THEN faults < MaxFaults /\ faults' = faults + 1
    ELSE faults' = faults

\* SlowStartBatch has returned to managePoolProvision / managePools and its
\* frame is gone.
SBReset ==
    /\ sbCount' = 0 /\ sbInitial' = 0
    /\ remaining' = 0 /\ successes' = 0 /\ index' = 0
    /\ batchSize' = 0 /\ loopI' = 0
    /\ errCh' = <<>> /\ goroutines' = EmptyMap
    /\ bpc' = "idle" /\ sbRet' = <<>>
    /\ batches' = <<>> /\ invoked' = <<>>
    /\ fnErr' = EmptyMap /\ batchOf' = EmptyMap

\* Where managePoolProvision goes on after the creates.
AfterCreates(de) == IF Len(de) > 0 THEN "delete" ELSE "cleanup"

\* managePools is called with the pools GetAllPools returned for the kind of
\* the template; managePoolProvision, lines 99-148: the two name sets, the
\* creates and the deletes, and the call of SlowStartBatch for the creates.
PoolPassStart ==
    /\ ppc = "idle"
    /\ LET snap == NameToPool(GetAllPools(poolStore, udKind))
           expectedPools == DOMAIN udPools
           gotPools == DOMAIN snap
           cr == Creates(expectedPools, gotPools)
           de == Deletes(expectedPools, gotPools)
       IN  /\ nameToPool' = snap
           /\ creates' = cr
           /\ deletes' = de
           /\ IF Len(cr) > 0
              THEN /\ SBEnter(Len(cr), slowStartInitialBatchSize)
                   /\ ppc' = "create"
              ELSE /\ UNCHANGED sbVars
                   /\ ppc' = AfterCreates(de)
    /\ UNCHANGED <<poolStore, udVars, errs, delI, cleanList, cleanupI, cleaned,
                   provRet, needUpdate, mpRet, cleanListed, passLogs>>

\* The inner loop of SlowStartBatch, for the creates and for the updates.
PoolSpawn ==
    /\ ppc \in {"create", "update"}
    /\ SBSpawn
    /\ UNCHANGED poolVars

\* wg.Wait and the end of a batch, for the creates and for the updates.
PoolJoin ==
    /\ ppc \in {"create", "update"}
    /\ SBJoin
    /\ UNCHANGED poolVars

\* Lines 148-154: fn(idx) of the creates is called.
PoolCreateInvoke(idx) ==
    /\ ppc = "create"
    /\ SBInvoke(idx)
    /\ createCalls' = Append(createCalls, creates[idx + 1])
    /\ UNCHANGED <<poolStore, udVars, ppc, passLocals, createResults, applyErrs,
                   updateAttempts, postUpdates,
                   deleteCalls,
                   cleanCalls, updateCalls, otherLive>>

\* Lines 154-161 and CreatePool: Create answers nil, a timeout (the object
\* may or may not have been stored) or another error; only the last one is
\* returned by fn.
CreateOutcomes == {"ok", "timeout-stored", "timeout-lost", "error"}

\* Lines 155-161: what fn returns for an answer of CreatePool; a timeout is
\* not an error of fn.
MutCreateFnErrTimeoutToo(poolName, outcome) ==
    IF outcome # "ok" THEN <<"create", poolName>> ELSE Nil
CreateFnErr(poolName, outcome) ==
    IF outcome = "error" THEN <<"create", poolName>> ELSE Nil

\* CreatePool, lines 407-415: the object ApplyPoolTemplate left in set is
\* handed to Create, whatever ApplyPoolTemplate returned; the merge of the
\* patch of a pool that has one succeeds or fails.
PoolCreateReturn(idx, applied, outcome) ==
    /\ ppc = "create"
    /\ idx \in DOMAIN goroutines
    /\ LET poolName == creates[idx + 1]
           set == IF applied
                  THEN ApplyPoolTemplate(udKind, poolName, udRevision,
                                         udPools[poolName].Replicas,
                                         udPools[poolName].Patch)
                  ELSE HalfBuilt(udKind, poolName, udRevision,
                                 udPools[poolName].Replicas)
       IN  /\ applied \/ PoolHasPatch(udPools[poolName].Patch)
           /\ poolStore' = IF outcome \in {"ok", "timeout-stored"}
                           THEN poolStore \cup {set}
                           ELSE poolStore
           /\ SBFnReturn(idx, CreateFnErr(poolName, outcome))
    /\ applyErrs' = IF applied THEN applyErrs ELSE applyErrs \cup {idx}
    /\ createResults' = [x \in DOMAIN createResults \cup {idx} |->
                            IF x = idx THEN outcome ELSE createResults[x]]
    /\ UNCHANGED <<udKind, udPools, udRevision, edits, switched, stProvisioned, stUpdated, ppc,
                   passLocals, createCalls, updateAttempts, postUpdates, deleteCalls,
                   cleanCalls, updateCalls, otherLive>>
    /\ Fault(~applied \/ outcome # "ok")

\* Lines 163-167: SlowStartBatch has returned createdNum, createdErr.
PoolCreateDone ==
    /\ ppc = "create"
    /\ bpc = "returned"
    /\ errs' = IF sbRet[2] = Nil THEN errs ELSE Append(errs, sbRet[2])
    /\ ppc' = AfterCreates(deletes)
    /\ SBReset
    /\ UNCHANGED <<poolStore, udVars, nameToPool, creates, deletes, delI,
                   cleanList, cleanupI, cleaned, provRet, needUpdate, mpRet,
                   cleanListed, passLogs>>

\* Lines 174-179: one iteration of the loop over deletes.
PoolDelete(ok) ==
    /\ ppc = "delete"
    /\ delI < Len(deletes)
    /\ LET poolName == deletes[delI + 1]
           pool == nameToPool[poolName]
       IN  /\ deleteCalls' = Append(deleteCalls, poolName)
           /\ IF ok
              THEN /\ poolStore' = poolStore \ {pool.PoolRef}
                   /\ errs' = errs
              ELSE /\ poolStore' = poolStore
                   /\ errs' = Append(errs, <<"delete", poolName>>)
    /\ delI' = delI + 1
    /\ ppc' = IF delI + 1 < Len(deletes) THEN "delete" ELSE "cleanup"
    /\ UNCHANGED <<sbVars, udKind, udPools, udRevision, edits, switched, stProvisioned, stUpdated,
                   nameToPool, creates, deletes, cleanList,
                   cleanupI, cleaned, provRet, needUpdate, mpRet, cleanListed,
                   createCalls, createResults, applyErrs, updateAttempts, postUpdates, cleanCalls,
                   updateCalls,
                   otherLive>>
    /\ Fault(~ok)

\* Lines 193-202: GetAllPools of the control of the other kind.
PoolCleanList(listOk) ==
    /\ ppc = "cleanup"
    /\ otherLive' = {o \in poolStore : o.kind # udKind}
    /\ cleanListed' = listOk
    /\ IF listOk
       THEN LET pools == GetAllPools(poolStore, OtherKind(udKind))
                names == SortedList({p.Name : p \in pools})
            IN  /\ cleanList' = [k \in 1..Len(names) |->
                                    NameToPool(pools)[names[k]]]
                /\ ppc' = IF pools = {} THEN "return" ELSE "clean"
                /\ errs' = errs
       ELSE /\ cleanList' = <<>>
            /\ ppc' = "return"
            /\ errs' = Append(errs, <<"list", OtherKind(udKind)>>)
    /\ cleanupI' = 0
    /\ UNCHANGED <<sbVars, poolStore, udKind, udPools, udRevision, edits,
                   switched, stProvisioned, stUpdated, nameToPool, creates, deletes,
                   delI, cleaned, provRet, needUpdate, mpRet, createCalls,
                   createResults, applyErrs, updateAttempts, postUpdates,
                   deleteCalls, cleanCalls, updateCalls>>
    /\ Fault(~listOk)

\* Lines 204-210: one iteration of the loop over the pools of the other kind.
PoolCleanDelete(ok) ==
    /\ ppc = "clean"
    /\ cleanupI < Len(cleanList)
    /\ LET pool == cleanList[cleanupI + 1]
       IN  /\ cleaned' = TRUE
           /\ cleanCalls' = Append(cleanCalls, pool.PoolRef)
           /\ IF ok
              THEN /\ poolStore' = poolStore \ {pool.PoolRef}
                   /\ errs' = errs
              ELSE /\ poolStore' = poolStore
                   /\ errs' = Append(errs, <<"clean", pool.Name>>)
    /\ cleanupI' = cleanupI + 1
    /\ ppc' = IF cleanupI + 1 < Len(cleanList) THEN "clean" ELSE "return"
    /\ UNCHANGED <<sbVars, udKind, udPools, udRevision, edits, switched, stProvisioned, stUpdated,
                   nameToPool, creates, deletes, delI,
                   cleanList, provRet, needUpdate, mpRet, cleanListed,
                   createCalls, createResults, applyErrs, updateAttempts, postUpdates, deleteCalls,
                   updateCalls, otherLive>>
    /\ Fault(~ok)

\* Line 214: expectedPools.Intersection(gotPools)
Exists(expectedPools, gotPools) == expectedPools \cap gotPools

\* Line 214: the boolean managePoolProvision returns.
MutProvisionedIgnoresCleaned(cr, de, cl) == Len(cr) > 0 \/ Len(de) > 0
Provisioned(cr, de, cl) == Len(cr) > 0 \/ Len(de) > 0 \/ cl

\* Line 214: the values managePoolProvision returns.
PoolProvisionReturn ==
    /\ ppc = "return"
    /\ provRet' = [exists |-> Exists(DOMAIN udPools, DOMAIN nameToPool),
                   provisioned |-> Provisioned(creates, deletes, cleaned),
                   err |-> NewAggregate(errs)]
    /\ ppc' = "select"
    /\ UNCHANGED <<sbVars, poolStore, udVars, nameToPool, creates, deletes,
                   errs, delI, cleanList, cleanupI, cleaned, needUpdate, mpRet,
                   cleanListed, passLogs>>

\* NewUnitedDeploymentCondition: a condition is its status, reason and
\* message; err.Error() is written as the error itself.  NoCondition stands
\* for a condition the pass does not set.
NoCondition == <<>>
EmptyMessage == <<>>
NewUnitedDeploymentCondition(status, reason, message) ==
    <<[status |-> status, reason |-> reason, message |-> message]>>

\* The conditions managePools sets on newStatus and the error it returns.
ManagePoolsResult(provisionedCond, updatedCond, err) ==
    [PoolProvisioned |-> provisionedCond, PoolUpdated |-> updatedCond,
     err |-> err]

\* Line 48
ProvisionFailedCond(err) ==
    NewUnitedDeploymentCondition("False", "Error", err)

\* Lines 52-54
ProvisionedCond(provisioned) ==
    IF provisioned
    THEN NewUnitedDeploymentCondition("True", "", EmptyMessage)
    ELSE NoCondition

\* Lines 87-91
MutUpdatedCondAlwaysTrue(updateErr) ==
    NewUnitedDeploymentCondition("True", "", EmptyMessage)
UpdatedCond(updateErr) ==
    IF updateErr = Nil
    THEN NewUnitedDeploymentCondition("True", "", EmptyMessage)
    ELSE NewUnitedDeploymentCondition("False", "Error", updateErr)

\* managePools, line 47: err != nil
MutProvisionFailedNever(err) == FALSE
ProvisionFailed(err) == err # Nil

\* managePools, lines 47-50: managePoolProvision returned an error.
PoolProvisionFailed ==
    /\ ppc = "select"
    /\ ProvisionFailed(provRet.err)
    /\ mpRet' = ManagePoolsResult(ProvisionFailedCond(provRet.err),
                                  NoCondition,
                                  <<"provision", provRet.err>>)
    /\ ppc' = "done"
    /\ UNCHANGED <<sbVars, poolStore, udVars, nameToPool, creates, deletes,
                   errs, delI, cleanList, cleanupI, cleaned, provRet,
                   needUpdate, cleanListed, passLogs>>

\* managePools, lines 52-70 and 87-92: the pools to update are selected, and
\* SlowStartBatch is called for them if there are any.
PoolSelect ==
    /\ ppc = "select"
    /\ ~ProvisionFailed(provRet.err)
    /\ LET need == NeedUpdate(provRet.exists, nameToPool, udRevision, udPools)
       IN  /\ needUpdate' = need
           /\ IF Len(need) > 0
              THEN /\ SBEnter(Len(need), slowStartInitialBatchSize)
                   /\ ppc' = "update"
                   /\ mpRet' = mpRet
              ELSE /\ UNCHANGED sbVars
                   /\ ppc' = "done"
                   /\ mpRet' = ManagePoolsResult(
                                   ProvisionedCond(provRet.provisioned),
                                   UpdatedCond(Nil), Nil)
    /\ UNCHANGED <<poolStore, udVars, nameToPool, creates, deletes, errs,
                   delI, cleanList, cleanupI, cleaned, provRet, cleanListed,
                   passLogs>>

\* Lines 70-79: fn(index) of the updates is called.
PoolUpdateInvoke(idx) ==
    /\ ppc = "update"
    /\ SBInvoke(idx)
    /\ updateCalls' = Append(updateCalls, needUpdate[idx + 1])
    /\ UNCHANGED <<poolStore, udVars, ppc, passLocals, createCalls,
                   createResults, applyErrs, updateAttempts, postUpdates, deleteCalls, cleanCalls,
                   otherLive>>

\* UpdatePool, line 426: the number of attempts.
updateRetries == 2

\* One attempt of UpdatePool ends with the object written back, or with an
\* error of Get, of ApplyPoolTemplate or of Update.
UpdateOutcomes == {"ok", "get", "apply", "update"}

\* The error of attempt i for the pool cell, nil for a successful attempt.
AttemptErr(outcome, cell, i) ==
    IF outcome = "ok" THEN Nil ELSE <<outcome, cell, i>>

\* The errors of the attempts UpdatePool has made so far in fn(idx).
AttemptsOf(idx) ==
    IF idx \in DOMAIN updateAttempts THEN updateAttempts[idx] ELSE <<>>

\* UpdatePool, lines 426-442: the loop ends after attempt i when Get or
\* ApplyPoolTemplate failed (return), when Update succeeded (break), or when
\* i was the last attempt.
MutLoopEndsIgnoresCount(outcome, i) == outcome # "update"
MutLoopEndsOnSuccessOnly(outcome, i) ==
    outcome = "ok" \/ i + 1 >= updateRetries
LoopEnds(outcome, i) == outcome # "update" \/ i + 1 >= updateRetries

\* UpdatePool, lines 429-449: the error returned after the attempts with
\* the given errors: the Get or ApplyPoolTemplate error of the attempt that
\* returned, or updateError, which every attempt assigns; PostUpdate
\* returns nil.
MutUpdatePoolErrFirst(errors) == errors[1]
UpdatePoolErr(errors) == errors[Len(errors)]

\* UpdatePool, lines 429-449: PostUpdate is reached when the loop was left
\* by the break after a successful Update; the returns of lines 430, 435
\* and 445 come before it.
MutPostUpdateReachedAlways(outcome) == TRUE
PostUpdateReached(outcome) == outcome = "ok"

\* Lines 79-83 and one iteration of the loop of UpdatePool: the live object
\* is read, the template applied and the object written back, or one of the
\* three fails; fn returns when the loop ends.
PoolUpdateAttempt(idx, outcome) ==
    /\ ppc = "update"
    /\ idx \in DOMAIN goroutines
    /\ goroutines[idx] = "running"
    /\ LET cell == needUpdate[idx + 1]
           pool == nameToPool[cell]
           set == ApplyPoolTemplate(udKind, pool.Name, udRevision,
                                    udPools[cell].Replicas,
                                    udPools[cell].Patch)
           i == Len(AttemptsOf(idx))
           errors == Append(AttemptsOf(idx), AttemptErr(outcome, cell, i))
       IN  /\ poolStore' = IF outcome = "ok"
                           THEN (poolStore \ {pool.PoolRef}) \cup {set}
                           ELSE poolStore
           /\ updateAttempts' = [x \in DOMAIN updateAttempts \cup {idx} |->
                                    IF x = idx THEN errors
                                    ELSE updateAttempts[x]]
           /\ IF LoopEnds(outcome, i)
              THEN SBFnReturn(idx, UpdatePoolErr(errors))
              ELSE UNCHANGED sbVars
           /\ postUpdates' = IF LoopEnds(outcome, i) /\ PostUpdateReached(outcome)
                             THEN Append(postUpdates, idx)
                             ELSE postUpdates
    /\ UNCHANGED <<udKind, udPools, udRevision, edits, switched, stProvisioned, stUpdated, ppc,
                   passLocals, createCalls, createResults, applyErrs, deleteCalls,
                   cleanCalls, updateCalls, otherLive>>
    /\ Fault(outcome # "ok")

\* Lines 87-92: SlowStartBatch has returned updateErr.
PoolUpdateDone ==
    /\ ppc = "update"
    /\ bpc = "returned"
    /\ mpRet' = ManagePoolsResult(ProvisionedCond(provRet.provisioned),
                                  UpdatedCond(sbRet[2]), sbRet[2])
    /\ ppc' = "done"
    /\ SBReset
    /\ UNCHANGED <<poolStore, udVars, nameToPool, creates, deletes, errs,
                   delI, cleanList, cleanupI, cleaned, provRet, needUpdate,
                   cleanListed, passLogs>>

\* managePools, line 44, and SetUnitedDeploymentCondition: newStatus is a
\* copy of ud.Status in which the conditions the pass set replace those of
\* their type.  Of a condition the status is kept.
NewStatusOf(old, cond) == IF cond = NoCondition THEN old ELSE cond[1].status

\* managePools has returned; the reconciler writes newStatus to ud.Status
\* and is ready for the next pass.
PoolPassEnd ==
    /\ ppc = "done"
    /\ ppc' = "idle"
    /\ switched' = FALSE
    /\ stProvisioned' = NewStatusOf(stProvisioned, mpRet.PoolProvisioned)
    /\ stUpdated' = NewStatusOf(stUpdated, mpRet.PoolUpdated)
    /\ nameToPool' = EmptyMap /\ creates' = <<>> /\ deletes' = <<>>
    /\ errs' = <<>> /\ delI' = 0 /\ cleanList' = <<>> /\ cleanupI' = 0
    /\ cleaned' = FALSE /\ provRet' = <<>> /\ needUpdate' = <<>>
    /\ mpRet' = <<>> /\ createCalls' = <<>> /\ deleteCalls' = <<>>
    /\ createResults' = EmptyMap /\ updateAttempts' = EmptyMap
    /\ applyErrs' = {}
    /\ postUpdates' = <<>>
    /\ cleanCalls' = <<>> /\ updateCalls' = <<>> /\ otherLive' = {}
    /\ cleanListed' = FALSE
    /\ UNCHANGED <<sbVars, faults, poolStore, udKind, udPools, udRevision, edits>>

(***************************************************************************)
(* Between two passes the user edits the resource or the live objects.     *)
(***************************************************************************)
\* ud.Spec.WorkloadTemplate is switched to the template of the other kind.
SwitchKind ==
    /\ ppc = "idle" /\ edits < MaxEdits
    /\ udKind' = OtherKind(udKind)
    /\ switched' = TRUE
    /\ UNCHANGED <<stProvisioned, stUpdated>>
    /\ edits' = edits + 1
    /\ UNCHANGED <<sbVars, faults, poolStore, udPools, udRevision, ppc, passLocals,
                   passLogs>>

\* A pool is added to ud.Spec.Topology.Pools, or its replicas or patch edited.
SetPool(poolName, desired) ==
    /\ ppc = "idle" /\ edits < MaxEdits
    /\ IF poolName \in DOMAIN udPools THEN udPools[poolName] # desired
       ELSE TRUE
    /\ udPools' = [n \in DOMAIN udPools \cup {poolName} |->
                      IF n = poolName THEN desired ELSE udPools[n]]
    /\ edits' = edits + 1
    /\ UNCHANGED <<sbVars, faults, poolStore, udKind, udRevision, switched, stProvisioned, stUpdated, ppc,
                   passLocals, passLogs>>

\* A pool is removed from ud.Spec.Topology.Pools.
RemovePool(poolName) ==
    /\ ppc = "idle" /\ edits < MaxEdits
    /\ poolName \in DOMAIN udPools
    /\ udPools' = [n \in DOMAIN udPools \ {poolName} |-> udPools[n]]
    /\ edits' = edits + 1
    /\ UNCHANGED <<sbVars, faults, poolStore, udKind, udRevision, switched, stProvisioned, stUpdated, ppc,
                   passLocals, passLogs>>

\* The name of a pool of ud.Spec.Topology.Pools is edited.
RenamePool(poolName, newName) ==
    /\ ppc = "idle" /\ edits < MaxEdits
    /\ poolName \in DOMAIN udPools
    /\ newName \notin DOMAIN udPools
    /\ udPools' = [n \in (DOMAIN udPools \ {poolName}) \cup {newName} |->
                      IF n = newName THEN udPools[poolName] ELSE udPools[n]]
    /\ edits' = edits + 1
    /\ UNCHANGED <<sbVars, faults, poolStore, udKind, udRevision, switched, stProvisioned, stUpdated,
                   ppc, passLocals, passLogs>>

\* The template changes and the revision manager hands out another revision.
ChangeRevision(revision) ==
    /\ ppc = "idle" /\ edits < MaxEdits
    /\ revision # udRevision
    /\ udRevision' = revision
    /\ edits' = edits + 1
    /\ UNCHANGED <<sbVars, faults, poolStore, udKind, udPools, switched, stProvisioned, stUpdated, ppc,
                   passLocals, passLogs>>

\* The labels of a live object, or ud.Spec.Selector, are edited so that the
\* object does not match the selector any more.
LabelsDrift(o) ==
    /\ ppc = "idle" /\ edits < MaxEdits
    /\ o \in poolStore /\ o.matches
    /\ poolStore' = (poolStore \ {o}) \cup {[o EXCEPT !.matches = FALSE]}
    /\ edits' = edits + 1
    /\ UNCHANGED <<sbVars, faults, udKind, udPools, udRevision, switched, stProvisioned, stUpdated, ppc,
                   passLocals, passLogs>>

(***************************************************************************)
(* The revision manager.  A ControllerRevision is a record                 *)
(*   [name, data, revision, ctime]                                         *)
(* name: the object's name (the parent's name and the hash, here the hash  *)
(* alone), data: Data.Raw, revision: Revision, ctime: CreationTimestamp.   *)
(* A pointer to a revision is <<r>>, the nil pointer <<>>.                 *)
(***************************************************************************)
\* ud.Status.CurrentRevision == ""
EmptyName == 0

\* ud.Spec.WorkloadTemplate with neither StatefulSetTemplate nor
\* DeploymentTemplate set
NoTemplate == 0

Contents == 1..NumContents

NilPtr == <<>>
Ptr(r) == <<r>>

StoreNames(store) == {r.name : r \in store}
StoreGet(store, name) == CHOOSE r \in store : r.name = name

\* history.HashControllerRevision, then history.ControllerRevisionName: an
\* FNV hash of Data.Raw followed by the collision count.  Two contents that
\* collide do so for every equal count; a larger count gives another name.
MutHashIgnoresCount(data, cc) == (data + 1) \div 2
HashControllerRevision(data, cc) == (data + 1) \div 2 + cc

\* history.SortControllerRevisions: by Revision, then CreationTimestamp,
\* then Name.
RevisionLess(a, b) ==
    IF a.revision # b.revision THEN a.revision < b.revision
    ELSE IF a.ctime # b.ctime THEN a.ctime < b.ctime
    ELSE a.name < b.name

RECURSIVE SortControllerRevisions(_)
SortControllerRevisions(S) ==
    IF S = {} THEN <<>>
    ELSE LET first == CHOOSE x \in S : \A y \in S \ {x} : RevisionLess(x, y)
         IN  <<first>> \o SortControllerRevisions(S \ {first})

\* controlledHistories: the revisions of the store that ud owns.
ControlledHistories(store) == store

\* nextRevision
MutNextRevisionSame(revs) ==
    IF Len(revs) <= 0 THEN 1 ELSE revs[Len(revs)].revision
NextRevision(revs) ==
    IF Len(revs) <= 0 THEN 1 ELSE revs[Len(revs)].revision + 1

\* history.EqualRevision: byte-identical Data.Raw
EqualRevision(a, b) == a.data = b.data

\* history.FindEqualRevisions: the equal revisions, in the order of revs
MutFindEqualRevisionsNone(revs, needle) == <<>>
FindEqualRevisions(revs, needle) ==
    SelectSeq(revs, LAMBDA r : EqualRevision(r, needle))

\* cleanExpiredRevision, line 174
MutExceedNumOffByOne(sorted, limit) == Len(sorted) - limit - 1
ExceedNum(sorted, limit) == Len(sorted) - limit

\* cleanExpiredRevision, lines 179-185: live[ud.Status.CurrentRevision]
MutIsLiveNever(name, current) == FALSE
IsLive(name, current) == name = current

\* cleanExpiredRevision, line 195: (*sortedRevisions)[exceedNum:]
CleanedRevisions(sorted, exceed) == SubSeq(sorted, exceed + 1, Len(sorted))

\* *collisionCount++
MutBumpCollisionTwice(cc) == cc + 2
MutBumpCollisionNone(cc) == cc
BumpCollision(cc) == cc + 1

\* Lines 155-165: the revision named by ud.Status.CurrentRevision among revs
\* (the last one of that name), or else the update revision.
RECURSIVE LastNamed(_, _)
LastNamed(revs, name) ==
    IF revs = <<>> THEN NilPtr
    ELSE IF revs[Len(revs)].name = name THEN Ptr(revs[Len(revs)])
    ELSE LastNamed(SubSeq(revs, 1, Len(revs) - 1), name)

MutResolveCurrentAlwaysUpdate(revs, current, update) == update
ResolveCurrent(revs, current, update) ==
    IF LastNamed(revs, current) # NilPtr THEN LastNamed(revs, current)
    ELSE update

\* The state in which no pass runs: the locals and the history are cleared.
RevLocalsCleared ==
    /\ revisions = <<>> /\ exceedNum = 0 /\ cleanI = 0
    /\ collisionCount = 0 /\ candidate = NilPtr /\ revRet = <<>>
    /\ sortedHistory = <<>> /\ deletedNames = <<>> /\ attempts = <<>>
    /\ createdNames = {} /\ updatedNames = {}

RevIdle ==
    /\ revStore = {} /\ udTemplate = NoTemplate /\ udLimit = 0
    /\ stCurrentRevision = EmptyName /\ stCollisionCount = 0 /\ now = 0
    /\ rpc = "off" /\ prevUpdate = EmptyName
    /\ RevLocalsCleared

\* return currentRevision, updateRevision, collisionCount, err
RevReturn(cur, upd, cc, err) ==
    /\ revRet' = [current |-> cur, update |-> upd, collisionCount |-> cc,
                  err |-> err]
    /\ rpc' = "done"

udState == <<udTemplate, udLimit, stCurrentRevision, stCollisionCount>>

\* Lines 90-108 up to the loop of cleanExpiredRevision: list the owned
\* histories, sort them, compute exceedNum.
RevStart(listOk) ==
    /\ rpc = "idle"
    /\ \A r \in revStore : r.revision < MaxRevision
    /\ IF ~listOk
       THEN /\ RevReturn(NilPtr, NilPtr, stCollisionCount, <<"list">>)
            /\ UNCHANGED <<revisions, exceedNum, cleanI, sortedHistory>>
       ELSE LET sorted == SortControllerRevisions(ControlledHistories(revStore))
                exceed == ExceedNum(sorted, udLimit)
            IN  /\ revisions' = sorted
                /\ sortedHistory' = sorted
                /\ exceedNum' = exceed
                /\ cleanI' = 0
                /\ rpc' = IF exceed <= 0 THEN "new" ELSE "clean"
                /\ UNCHANGED revRet
    /\ UNCHANGED <<revStore, udState, now, collisionCount, candidate,
                   deletedNames, attempts, createdNames, updatedNames,
                   prevUpdate>>

\* Lines 182-185: the revision at i is the current one: continue.
CleanSkip ==
    /\ rpc = "clean"
    /\ cleanI < Len(revisions)
    /\ IsLive(revisions[cleanI + 1].name, stCurrentRevision)
    /\ cleanI' = cleanI + 1
    /\ UNCHANGED <<revStore, udState, now, rpc, revisions, exceedNum,
                   collisionCount, candidate, revRet, sortedHistory,
                   deletedNames, attempts, createdNames, updatedNames,
                   prevUpdate>>

\* Lines 187-193: i < exceedNum: delete the revision at i; a failed delete
\* ends the pass (lines 102-107).
CleanDelete(ok) ==
    /\ rpc = "clean"
    /\ cleanI < Len(revisions)
    /\ ~IsLive(revisions[cleanI + 1].name, stCurrentRevision)
    /\ cleanI < exceedNum
    /\ deletedNames' = Append(deletedNames, revisions[cleanI + 1].name)
    /\ IF ok
       THEN /\ revStore' = {r \in revStore : r.name # revisions[cleanI + 1].name}
            /\ cleanI' = cleanI + 1
            /\ UNCHANGED <<rpc, revRet>>
       ELSE /\ RevReturn(NilPtr, NilPtr, stCollisionCount, <<"delete">>)
            /\ UNCHANGED <<revStore, cleanI>>
    /\ UNCHANGED <<udState, now, revisions, exceedNum, collisionCount,
                   candidate, sortedHistory, attempts, createdNames,
                   updatedNames, prevUpdate>>

\* Lines 187-189 and 195-197: the loop ends (break, or the range is
\* exhausted) and the slice from exceedNum on is returned.
CleanEnd ==
    /\ rpc = "clean"
    /\ \/ cleanI >= Len(revisions)
       \/ /\ cleanI < Len(revisions)
          /\ ~IsLive(revisions[cleanI + 1].name, stCurrentRevision)
          /\ cleanI >= exceedNum
    /\ revisions' = CleanedRevisions(revisions, exceedNum)
    /\ rpc' = "new"
    /\ UNCHANGED <<revStore, udState, now, exceedNum, cleanI, collisionCount,
                   candidate, revRet, sortedHistory, deletedNames, attempts,
                   createdNames, updatedNames, prevUpdate>>

\* newRevision, lines 248-256: one of the two templates is set.
MutHasTemplateAlways(template) == TRUE
HasTemplate(template) == template # NoTemplate

\* Lines 114-124 with newRevision's default case (lines 253-255).
RevNoTemplate ==
    /\ rpc = "new"
    /\ ~HasTemplate(udTemplate)
    /\ collisionCount' = stCollisionCount
    /\ RevReturn(NilPtr, NilPtr, stCollisionCount, <<"template">>)
    /\ UNCHANGED <<revStore, udState, now, revisions, exceedNum, cleanI,
                   candidate, sortedHistory, deletedNames, attempts,
                   createdNames, updatedNames, prevUpdate>>

\* newRevision(ud, nextRevision(revisions), &collisionCount)
NewRevision(template, revs) ==
    [name |-> EmptyName, data |-> template, revision |-> NextRevision(revs),
     ctime |-> 0]

\* Lines 132-135: the newest revision is equal to the candidate: reuse it.
RevReuse ==
    /\ rpc = "new"
    /\ HasTemplate(udTemplate)
    /\ LET cand == NewRevision(udTemplate, revisions)
           equalRevisions == FindEqualRevisions(revisions, cand)
       IN  /\ Len(equalRevisions) > 0
           /\ EqualRevision(revisions[Len(revisions)],
                            equalRevisions[Len(equalRevisions)])
           /\ candidate' = Ptr(cand)
           /\ collisionCount' = stCollisionCount
           /\ RevReturn(ResolveCurrent(revisions, stCurrentRevision,
                                       Ptr(revisions[Len(revisions)])),
                        Ptr(revisions[Len(revisions)]), stCollisionCount, Nil)
    /\ UNCHANGED <<revStore, udState, now, revisions, exceedNum, cleanI,
                   sortedHistory, deletedNames, attempts, createdNames,
                   updatedNames, prevUpdate>>

\* Lines 136-145: an older revision is equal to the candidate: roll back by
\* giving it the candidate's Revision and updating it in the store.
RevRollback(ok) ==
    /\ rpc = "new"
    /\ HasTemplate(udTemplate)
    /\ LET cand == NewRevision(udTemplate, revisions)
           equalRevisions == FindEqualRevisions(revisions, cand)
       IN  /\ Len(equalRevisions) > 0
           /\ ~EqualRevision(revisions[Len(revisions)],
                             equalRevisions[Len(equalRevisions)])
           /\ LET old == equalRevisions[Len(equalRevisions)]
                  bumped == [old EXCEPT !.revision = cand.revision]
                  revs == [k \in 1..Len(revisions) |->
                             IF revisions[k].name = old.name
                             THEN bumped ELSE revisions[k]]
              IN  /\ candidate' = Ptr(cand)
                  /\ collisionCount' = stCollisionCount
                  /\ revisions' = revs
                  /\ updatedNames' = updatedNames \cup {old.name}
                  /\ IF ok
                     THEN /\ revStore' = {IF r.name = old.name THEN bumped ELSE r :
                                            r \in revStore}
                          /\ RevReturn(ResolveCurrent(revs, stCurrentRevision,
                                                      Ptr(bumped)),
                                       Ptr(bumped), stCollisionCount, Nil)
                     ELSE /\ revStore' = revStore
                          /\ RevReturn(NilPtr, NilPtr, stCollisionCount,
                                       <<"update">>)
    /\ UNCHANGED <<udState, now, exceedNum, cleanI, sortedHistory,
                   deletedNames, attempts, createdNames, prevUpdate>>

\* Lines 146-149: no revision is equal: call createControllerRevision.
RevCallCreate ==
    /\ rpc = "new"
    /\ HasTemplate(udTemplate)
    /\ LET cand == NewRevision(udTemplate, revisions)
       IN  /\ Len(FindEqualRevisions(revisions, cand)) = 0
           /\ candidate' = Ptr(cand)
    /\ collisionCount' = stCollisionCount
    /\ rpc' = "create"
    /\ UNCHANGED <<revStore, udState, now, revisions, exceedNum, cleanI,
                   revRet, sortedHistory, deletedNames, attempts,
                   createdNames, updatedNames, prevUpdate>>

\* createControllerRevision, lines 212-214: the name of this iteration.
CloneName == HashControllerRevision(candidate[1].data, collisionCount)

\* One iteration of the loop of createControllerRevision is one of the five
\* actions below; each records the attempt.
Attempt(resp) ==
    [name |-> CloneName, cc |-> collisionCount, resp |-> resp,
     existed |-> CloneName \in StoreNames(revStore),
     same |-> /\ CloneName \in StoreNames(revStore)
              /\ StoreGet(revStore, CloneName).data = candidate[1].data]

\* Lines 215 and 228: Create succeeds.
CreateOk(tick) ==
    /\ rpc = "create"
    /\ CloneName \notin StoreNames(revStore)
    /\ LET clone == [candidate[1] EXCEPT !.name = CloneName, !.ctime = now]
       IN  /\ revStore' = revStore \cup {clone}
           /\ createdNames' = createdNames \cup {CloneName}
           /\ RevReturn(ResolveCurrent(revisions, stCurrentRevision, Ptr(clone)),
                        Ptr(clone), collisionCount, Nil)
    /\ now' = IF tick /\ now < MaxClock THEN now + 1 ELSE now
    /\ attempts' = Append(attempts, Attempt("created"))
    /\ UNCHANGED <<udState, revisions, exceedNum, cleanI, collisionCount,
                   candidate, sortedHistory, deletedNames, updatedNames,
                   prevUpdate>>

\* Lines 215 and 228: Create fails with an error other than AlreadyExists.
CreateErr ==
    /\ rpc = "create"
    /\ attempts' = Append(attempts, Attempt("error"))
    /\ RevReturn(NilPtr, NilPtr, collisionCount, <<"create">>)
    /\ UNCHANGED <<revStore, udState, now, revisions, exceedNum, cleanI,
                   collisionCount, candidate, sortedHistory, deletedNames,
                   createdNames, updatedNames, prevUpdate>>

\* Lines 216-221: AlreadyExists, and reading the object back fails.
CreateGetErr ==
    /\ rpc = "create"
    /\ CloneName \in StoreNames(revStore)
    /\ attempts' = Append(attempts, Attempt("geterror"))
    /\ RevReturn(NilPtr, NilPtr, collisionCount, <<"get">>)
    /\ UNCHANGED <<revStore, udState, now, revisions, exceedNum, cleanI,
                   collisionCount, candidate, sortedHistory, deletedNames,
                   createdNames, updatedNames, prevUpdate>>

\* Lines 216-224: AlreadyExists, and the object read back has the same
\* Data.Raw: it is returned.
CreateIdentical ==
    /\ rpc = "create"
    /\ CloneName \in StoreNames(revStore)
    /\ LET exists == StoreGet(revStore, CloneName)
       IN  /\ exists.data = candidate[1].data
           /\ RevReturn(ResolveCurrent(revisions, stCurrentRevision, Ptr(exists)),
                        Ptr(exists), collisionCount, Nil)
    /\ attempts' = Append(attempts, Attempt("identical"))
    /\ UNCHANGED <<revStore, udState, now, revisions, exceedNum, cleanI,
                   collisionCount, candidate, sortedHistory, deletedNames,
                   createdNames, updatedNames, prevUpdate>>

\* Lines 216-226: AlreadyExists, and the object read back differs:
\* *collisionCount++ and the loop continues.
CreateCollision ==
    /\ rpc = "create"
    /\ CloneName \in StoreNames(revStore)
    /\ StoreGet(revStore, CloneName).data # candidate[1].data
    /\ collisionCount < MaxCollision
    /\ collisionCount' = BumpCollision(collisionCount)
    /\ attempts' = Append(attempts, Attempt("collision"))
    /\ UNCHANGED <<revStore, udState, now, rpc, revisions, exceedNum, cleanI,
                   candidate, revRet, sortedHistory, deletedNames,
                   createdNames, updatedNames, prevUpdate>>

\* The names the caller may record as status.currentRevision after a pass.
StatusCandidates ==
    {stCurrentRevision}
    \cup (IF revRet.err = Nil
          THEN {revRet.current[1].name, revRet.update[1].name} ELSE {})

\* The caller of constructUnitedDeploymentRevisions ends the pass: it may
\* persist the returned collision count and record a current revision.
PersistStatus(newCurrent, persistCount) ==
    /\ rpc = "done"
    /\ newCurrent \in StatusCandidates
    /\ stCurrentRevision' = newCurrent
    /\ stCollisionCount' = IF persistCount THEN revRet.collisionCount
                           ELSE stCollisionCount
    /\ prevUpdate' = IF revRet.err = Nil THEN revRet.update[1].name
                     ELSE EmptyName
    /\ rpc' = "idle"
    /\ revisions' = <<>> /\ exceedNum' = 0 /\ cleanI' = 0
    /\ collisionCount' = 0 /\ candidate' = NilPtr /\ revRet' = <<>>
    /\ sortedHistory' = <<>> /\ deletedNames' = <<>> /\ attempts' = <<>>
    /\ createdNames' = {} /\ updatedNames' = {}
    /\ UNCHANGED <<revStore, udTemplate, udLimit, now>>

\* The user edits ud.Spec.WorkloadTemplate between two passes.
ChangeTemplate(template) ==
    /\ rpc = "idle"
    /\ template # udTemplate
    /\ udTemplate' = template
    /\ prevUpdate' = EmptyName
    /\ UNCHANGED <<revStore, udLimit, stCurrentRevision, stCollisionCount,
                   now, rpc, revisions, exceedNum, cleanI, collisionCount,
                   candidate, revRet, sortedHistory, deletedNames, attempts,
                   createdNames, updatedNames>>

InitRev ==
    /\ SBIdle
    /\ revStore = {}
    /\ udTemplate \in Contents \cup {NoTemplate}
    /\ udLimit \in 0..MaxLimit
    /\ stCurrentRevision = EmptyName
    /\ stCollisionCount = 0
    /\ now = 0
    /\ rpc = "idle"
    /\ prevUpdate = EmptyName
    /\ RevLocalsCleared
    /\ PoolIdle

NextRev ==
    \/ \E listOk \in BOOLEAN : RevStart(listOk) /\ UNCHANGED <<sbVars, poolVars>>
    \/ CleanSkip /\ UNCHANGED <<sbVars, poolVars>>
    \/ \E ok \in BOOLEAN : CleanDelete(ok) /\ UNCHANGED <<sbVars, poolVars>>
    \/ CleanEnd /\ UNCHANGED <<sbVars, poolVars>>
    \/ RevNoTemplate /\ UNCHANGED <<sbVars, poolVars>>
    \/ RevReuse /\ UNCHANGED <<sbVars, poolVars>>
    \/ \E ok \in BOOLEAN : RevRollback(ok) /\ UNCHANGED <<sbVars, poolVars>>
    \/ RevCallCreate /\ UNCHANGED <<sbVars, poolVars>>
    \/ \E tick \in BOOLEAN : CreateOk(tick) /\ UNCHANGED <<sbVars, poolVars>>
    \/ CreateErr /\ UNCHANGED <<sbVars, poolVars>>
    \/ CreateGetErr /\ UNCHANGED <<sbVars, poolVars>>
    \/ CreateIdentical /\ UNCHANGED <<sbVars, poolVars>>
    \/ CreateCollision /\ UNCHANGED <<sbVars, poolVars>>
    \/ \E newCurrent \in StoreNames(revStore) \cup {EmptyName} :
          \E persistCount \in BOOLEAN :
              PersistStatus(newCurrent, persistCount) /\ UNCHANGED <<sbVars, poolVars>>
    \/ \E template \in Contents \cup {NoTemplate} :
          ChangeTemplate(template) /\ UNCHANGED <<sbVars, poolVars>>

SpecRev == InitRev /\ [][NextRev]_vars

(***************************************************************************)
(* The batcher on its own: the inputs are drawn in the initial state and   *)
(* every call of fn either succeeds or returns its own error.              *)
(***************************************************************************)
BatchInputs ==
    {<<c, b>> : c \in 0..MaxCount, b \in 1..MaxInitialBatch} \cup {<<10, 1>>}

BatchStart ==
    /\ bpc = "call"
    /\ SBEnter(sbCount, sbInitial)

PlainFn ==
    \E idx \in DOMAIN goroutines : \E ok \in BOOLEAN :
        SBFnReturn(idx, IF ok THEN Nil ELSE ErrOfCall(idx))

PlainInvoke == \E idx \in DOMAIN goroutines : SBInvoke(idx)

InitBatch ==
    /\ \E in \in BatchInputs : sbCount = in[1] /\ sbInitial = in[2]
    /\ remaining = 0 /\ successes = 0 /\ index = 0
    /\ batchSize = 0 /\ loopI = 0
    /\ errCh = <<>> /\ goroutines = EmptyMap
    /\ bpc = "call" /\ sbRet = <<>>
    /\ batches = <<>> /\ invoked = <<>>
    /\ fnErr = EmptyMap /\ batchOf = EmptyMap
    /\ RevIdle
    /\ PoolIdle

NextBatch ==
    \/ BatchStart /\ UNCHANGED <<revVars, poolVars>>
    \/ SBSpawn /\ UNCHANGED <<revVars, poolVars>>
    \/ PlainInvoke /\ UNCHANGED <<revVars, poolVars>>
    \/ PlainFn /\ UNCHANGED <<revVars, poolVars>>
    \/ SBJoin /\ UNCHANGED <<revVars, poolVars>>

SpecBatch == InitBatch /\ [][NextBatch]_vars

(***************************************************************************)
(* The pool provisioning of a new resource: no live object yet, a topology *)
(* of pools with one replica and no patch.                                 *)
(***************************************************************************)
InitPool ==
    /\ SBIdle
    /\ RevIdle
    /\ poolStore = {}
    /\ udKind \in Kinds
    /\ \E names \in SUBSET PoolNames :
          udPools = [n \in names |-> [Replicas |-> 1, Patch |-> ""]]
    /\ udRevision = 1
    /\ edits = 0
    /\ faults = 0
    /\ switched = FALSE
    /\ stProvisioned = NoStatus /\ stUpdated = NoStatus
    /\ ppc = "idle"
    /\ PoolLocalsCleared

NextPool ==
    \/ PoolPassStart /\ UNCHANGED revVars
    \/ PoolSpawn /\ UNCHANGED revVars
    \/ PoolJoin /\ UNCHANGED revVars
    \/ \E idx \in DOMAIN goroutines : PoolCreateInvoke(idx) /\ UNCHANGED revVars
    \/ \E idx \in DOMAIN goroutines : \E outcome \in CreateOutcomes :
          \E applied \in BOOLEAN :
             PoolCreateReturn(idx, applied, outcome) /\ UNCHANGED revVars
    \/ PoolCreateDone /\ UNCHANGED revVars
    \/ \E ok \in BOOLEAN : PoolDelete(ok) /\ UNCHANGED revVars
    \/ \E listOk \in BOOLEAN : PoolCleanList(listOk) /\ UNCHANGED revVars
    \/ \E ok \in BOOLEAN : PoolCleanDelete(ok) /\ UNCHANGED revVars
    \/ PoolProvisionReturn /\ UNCHANGED revVars
    \/ PoolProvisionFailed /\ UNCHANGED revVars
    \/ PoolSelect /\ UNCHANGED revVars
    \/ \E idx \in DOMAIN goroutines : PoolUpdateInvoke(idx) /\ UNCHANGED revVars
    \/ \E idx \in DOMAIN goroutines : \E outcome \in UpdateOutcomes :
          PoolUpdateAttempt(idx, outcome) /\ UNCHANGED revVars
    \/ PoolUpdateDone /\ UNCHANGED revVars
    \/ PoolPassEnd /\ UNCHANGED revVars
    \/ SwitchKind /\ UNCHANGED revVars
    \/ \E poolName \in PoolNames : \E desired \in Desired :
          SetPool(poolName, desired) /\ UNCHANGED revVars
    \/ \E poolName \in PoolNames : RemovePool(poolName) /\ UNCHANGED revVars
    \/ \E poolName \in PoolNames : \E newName \in PoolNames :
          RenamePool(poolName, newName) /\ UNCHANGED revVars
    \/ \E revision \in PoolRevisions :
          ChangeRevision(revision) /\ UNCHANGED revVars
    \/ \E o \in poolStore : LabelsDrift(o) /\ UNCHANGED revVars

SpecPool == InitPool /\ [][NextPool]_vars

\* The steps of the reconciler: everything but the edits of the user.
PoolPass ==
    \/ PoolPassStart /\ UNCHANGED revVars
    \/ PoolSpawn /\ UNCHANGED revVars
    \/ PoolJoin /\ UNCHANGED revVars
    \/ \E idx \in DOMAIN goroutines : PoolCreateInvoke(idx) /\ UNCHANGED revVars
    \/ \E idx \in DOMAIN goroutines : \E outcome \in CreateOutcomes :
          \E applied \in BOOLEAN :
             PoolCreateReturn(idx, applied, outcome) /\ UNCHANGED revVars
    \/ PoolCreateDone /\ UNCHANGED revVars
    \/ \E ok \in BOOLEAN : PoolDelete(ok) /\ UNCHANGED revVars
    \/ \E listOk \in BOOLEAN : PoolCleanList(listOk) /\ UNCHANGED revVars
    \/ \E ok \in BOOLEAN : PoolCleanDelete(ok) /\ UNCHANGED revVars
    \/ PoolProvisionReturn /\ UNCHANGED revVars
    \/ PoolProvisionFailed /\ UNCHANGED revVars
    \/ PoolSelect /\ UNCHANGED revVars
    \/ \E idx \in DOMAIN goroutines : PoolUpdateInvoke(idx) /\ UNCHANGED revVars
    \/ \E idx \in DOMAIN goroutines : \E outcome \in UpdateOutcomes :
          PoolUpdateAttempt(idx, outcome) /\ UNCHANGED revVars
    \/ PoolUpdateDone /\ UNCHANGED revVars
    \/ PoolPassEnd /\ UNCHANGED revVars

\* The reconciler is requeued for as long as it has something to do, every
\* goroutine of a batch runs to its end and every request is answered; the
\* budgets of edits and faults make the desired state stay unchanged and
\* the store stop failing from some point on.
SpecPoolFair == SpecPool /\ WF_vars(PoolPass)

(***************************************************************************)
(* Helpers of the properties.                                              *)
(***************************************************************************)
RECURSIVE SumSeq(_)
SumSeq(s) == IF s = <<>> THEN 0 ELSE Head(s) + SumSeq(Tail(s))

Range(s) == {s[k] : k \in 1..Len(s)}

SBReturned == bpc = "returned"

\* No finished call of fn has returned an error.
NoCallFailed == \A i \in DOMAIN fnErr : fnErr[i] = Nil

\* The calls spawned by the batch running (or, after the return, the last one).
LastBatchCalls == {i \in DOMAIN batchOf : batchOf[i] = Len(batches)}

(***************************************************************************)
(* Properties of SlowStartBatch, checked under SpecBatch.                  *)
(***************************************************************************)

\* C6: when no call fails, the first batch has min(count, initialBatchSize)
\* calls, each following batch has min(2 * previous size, remaining calls)
\* calls, all count calls are executed and the result is (count, nil); for
\* count = 10 and initialBatchSize = 1 the batch sizes are 1, 2, 4, 3.
C6_SlowStartRamp ==
    /\ (bpc # "call" /\ sbCount > 0) =>
          /\ Len(batches) >= 1
          /\ batches[1] = (IF sbCount < sbInitial THEN sbCount ELSE sbInitial)
    /\ \A k \in 2..Len(batches) :
          LET left == sbCount - SumSeq(SubSeq(batches, 1, k - 1))
          IN  batches[k] = (IF 2 * batches[k - 1] < left
                            THEN 2 * batches[k - 1] ELSE left)
    /\ (SBReturned /\ NoCallFailed) =>
          /\ sbRet = <<sbCount, Nil>>
          /\ Len(invoked) = sbCount
          /\ DOMAIN fnErr = 0..(sbCount - 1)
          /\ SumSeq(batches) = sbCount
    /\ (SBReturned /\ NoCallFailed /\ sbCount = 10 /\ sbInitial = 1) =>
          batches = <<1, 2, 4, 3>>

C6_Witness ==
    /\ SBReturned
    /\ sbCount = 10 /\ sbInitial = 1
    /\ sbRet = <<10, Nil>>
    /\ batches = <<1, 2, 4, 3>>

\* C7: when a call of a batch fails, every call of that batch still finishes,
\* no call of a later batch is ever invoked, and the returned success count
\* is the total size of the earlier batches plus the successful calls of the
\* failing batch.
C7_FailFast ==
    /\ \A i \in Range(invoked) : \A j \in DOMAIN batchOf :
          batchOf[j] < batchOf[i] => (j \in DOMAIN fnErr /\ fnErr[j] = Nil)
    /\ (SBReturned /\ ~NoCallFailed) =>
          /\ sbRet[2] # Nil
          /\ DOMAIN fnErr = DOMAIN batchOf
          /\ Range(invoked) = DOMAIN batchOf
          /\ Cardinality(DOMAIN batchOf) = SumSeq(batches)
          /\ \A i \in DOMAIN fnErr : fnErr[i] # Nil => i \in LastBatchCalls
          /\ sbRet[1] = SumSeq(SubSeq(batches, 1, Len(batches) - 1))
                        + Cardinality({i \in LastBatchCalls : fnErr[i] = Nil})

C7_Witness ==
    /\ SBReturned
    /\ Len(batches) = 2
    /\ sbRet[2] # Nil
    /\ sbRet[1] = 2
    /\ SumSeq(batches) < sbCount

C9_IndexingAsStated ==
    /\ \A k \in 1..Len(invoked) : invoked[k] \in 0..(sbCount - 1)
    /\ \A k, l \in 1..Len(invoked) : k # l => invoked[k] # invoked[l]
    /\ Range(invoked) = 0..(Len(invoked) - 1)
    /\ (SBReturned /\ NoCallFailed) => Range(invoked) = 0..(sbCount - 1)

\* C9 amended: the indices handed to the goroutines so far are always a
\* prefix 0..index-1; the indices invoked so far are among them and include
\* every index of the earlier batches (the calls of one batch start in any
\* order); no index is passed to more than one call, and when no call fails
\* every index in 0..count-1 is invoked exactly once.
C9_Indexing ==
    /\ \A k \in 1..Len(invoked) : invoked[k] \in 0..(sbCount - 1)
    /\ \A k, l \in 1..Len(invoked) : k # l => invoked[k] # invoked[l]
    /\ DOMAIN batchOf = 0..(index - 1)
    /\ Range(invoked) \subseteq DOMAIN batchOf
    /\ \A j \in DOMAIN batchOf :
          batchOf[j] < Len(batches) => j \in Range(invoked)
    /\ (SBReturned /\ NoCallFailed) =>
          /\ Range(invoked) = 0..(sbCount - 1)
          /\ Len(invoked) = sbCount

C9_Witness ==
    /\ SBReturned /\ NoCallFailed
    /\ sbCount >= 3
    /\ \E k \in 1..(Len(invoked) - 1) : invoked[k] > invoked[k + 1]

(***************************************************************************)
(* Properties of the revision manager, checked under SpecRev.              *)
(***************************************************************************)
RevDone == rpc = "done"
RevSucceeded == rpc = "done" /\ revRet.err = Nil

\* The pass running is the second of two passes in a row over an unchanged
\* template, the first of which succeeded.
SecondRunInARow == prevUpdate # EmptyName

\* C1: when constructUnitedDeploymentRevisions runs twice in a row with an
\* unchanged template and no store failure, the second run creates no
\* revision object and returns the update revision (by name) of the first.
C1_RevisionIdempotence ==
    (RevSucceeded /\ SecondRunInARow) =>
        /\ createdNames = {}
        /\ revRet.update[1].name = prevUpdate

\* The same with a retention limit of at least 1, where the newest revision
\* is never pruned.
C1_IdempotenceWithPositiveLimit ==
    (RevSucceeded /\ SecondRunInARow /\ udLimit >= 1) =>
        /\ createdNames = {}
        /\ revRet.update[1].name = prevUpdate

\* cleanExpiredRevision has returned without error and nothing else of the
\* pass has run yet.
CleanReturned == rpc = "new"

\* C2: after cleanExpiredRevision returns without error, the number of
\* revision objects owned by the resource that remain in the store is at
\* most the retention limit.
C2_PruningBound ==
    CleanReturned => Cardinality(revStore) <= udLimit

\* C2 amended: after cleanExpiredRevision returns without error the history
\* it returns has at most limit entries, and the store holds at most limit
\* revisions of the resource, plus the current revision when that one was
\* among the oldest, over-budget entries and was spared.
C2_PruningBoundPlusCurrent ==
    CleanReturned =>
        /\ Len(revisions) <= udLimit
        /\ Cardinality(revStore) <= udLimit + 1
        /\ Cardinality(revStore) > udLimit =>
              /\ exceedNum > 0
              /\ \E k \in 1..exceedNum :
                    /\ sortedHistory[k].name = stCurrentRevision
                    /\ sortedHistory[k] \in revStore

C2_Witness ==
    /\ CleanReturned
    /\ udLimit >= 1
    /\ Len(deletedNames) >= 1
    /\ Cardinality(revStore) = udLimit + 1

\* The store holds what the pass found, less what cleanExpiredRevision
\* has deleted: the pass has not created or updated anything yet.
OnlyCleaned ==
    \/ rpc \in {"clean", "new"}
    \/ rpc = "done" /\ revRet.err = <<"delete">>

\* C3: cleanExpiredRevision never issues a delete for the revision named by
\* status.currentRevision, whatever its position in the sorted history, and
\* every revision it deletes is earlier in the sorted order than every
\* revision other than the current one that it keeps.
C3_PruneSparesCurrent ==
    /\ \A k \in 1..Len(deletedNames) : deletedNames[k] # stCurrentRevision
    /\ OnlyCleaned =>
          \A d \in 1..Len(sortedHistory) : \A j \in 1..Len(sortedHistory) :
              ( /\ sortedHistory[d] \notin revStore
                /\ sortedHistory[j] \in revStore
                /\ sortedHistory[j].name # stCurrentRevision ) => d < j
    /\ OnlyCleaned =>
          \A d \in 1..Len(sortedHistory) :
              sortedHistory[d] \notin revStore =>
                  sortedHistory[d].name \in Range(deletedNames)

C3_Witness ==
    /\ CleanReturned
    /\ Len(deletedNames) >= 1
    /\ Len(sortedHistory) >= 3
    /\ sortedHistory[1].name = stCurrentRevision
    /\ sortedHistory[1] \in revStore
    /\ sortedHistory[2] \notin revStore

\* C4: in createControllerRevision, each time the computed name exists with
\* different content the collision counter grows by exactly one and the next
\* attempt uses the name computed from the grown counter; when the existing
\* object has identical content it is returned, nothing is created and the
\* counter is as it was.
C4_CollisionHandling ==
    \A k \in 1..Len(attempts) :
        LET a == attempts[k]
            answered == a.resp \notin {"error", "geterror"}
        IN  /\ a.name = HashControllerRevision(candidate[1].data, a.cc)
            /\ k = 1 => a.cc = stCollisionCount
            /\ (a.existed /\ ~a.same /\ answered) =>
                  /\ a.resp = "collision"
                  /\ IF k < Len(attempts)
                     THEN attempts[k + 1].cc = a.cc + 1
                     ELSE collisionCount = a.cc + 1 /\ rpc = "create"
            /\ (a.existed /\ a.same /\ answered) =>
                  /\ a.resp = "identical"
                  /\ k = Len(attempts)
                  /\ RevSucceeded
                  /\ revRet.update[1].name = a.name
                  /\ revRet.update[1] \in revStore
                  /\ revRet.update[1].data = candidate[1].data
                  /\ createdNames = {}
                  /\ collisionCount = a.cc
                  /\ revRet.collisionCount = a.cc
            /\ (~a.existed /\ answered) =>
                  /\ a.resp = "created"
                  /\ createdNames = {a.name}
                  /\ revRet.collisionCount = a.cc

C4_Witness ==
    /\ RevSucceeded
    /\ Len(attempts) >= 2
    /\ attempts[1].resp = "collision"
    /\ attempts[Len(attempts)].resp = "identical"

(***************************************************************************)
(* The pools: managePools and managePoolProvision.                         *)
(***************************************************************************)
\* managePools has returned.
PoolPassDone == ppc = "done"

\* The pool names of the topology, and those of the snapshot of live pools.
ExpectedNames == DOMAIN udPools
ExistingNames == DOMAIN nameToPool

\* The names of the intersection whose live revision label, replica count
\* or applied patch differs from the desired one.
Outdated ==
    {n \in ExpectedNames \cap ExistingNames :
        \/ nameToPool[n].PoolRef.revision # udRevision
        \/ nameToPool[n].PoolRef.replicas # udPools[n].Replicas
        \/ nameToPool[n].PoolRef.patch # udPools[n].Patch}

\* A create returned an error other than a timeout.
CreateFailed == \E k \in 1..Len(errs) : errs[k][1] = "create"

\* The live pools of the kind of the template have distinct pool names.
PoolNamesDistinct ==
    \A a, b \in ListWorkloads(poolStore, udKind) : a.pool = b.pool => a = b

\* C5 as stated: in every pass creation is attempted exactly for the names
\* in expected minus existing, deletion exactly for the names in existing
\* minus expected, and exactly the outdated names of the intersection are
\* selected for update.
C5_DiffAsStated ==
    PoolPassDone =>
        /\ Range(createCalls) = ExpectedNames \ ExistingNames
        /\ Range(deleteCalls) = ExistingNames \ ExpectedNames
        /\ Range(needUpdate) = Outdated

\* C5 amended: the creates attempted are the names of expected minus
\* existing taken in ascending order up to the end of the slow-start batch
\* in which a create failed (all of them when no create fails with an error
\* other than a timeout), each attempted once; deletion is attempted exactly
\* once for every name of existing minus expected; and when
\* managePoolProvision returns no error exactly the outdated names of the
\* intersection are selected for update, none when it returns an error.
C5_DiffCorrectness ==
    PoolPassDone =>
        /\ Range(createCalls) =
              {n \in ExpectedNames \ ExistingNames :
                  Cardinality({m \in ExpectedNames \ ExistingNames : m < n})
                      < Len(createCalls)}
        /\ Cardinality(Range(createCalls)) = Len(createCalls)
        /\ ~CreateFailed => Range(createCalls) = ExpectedNames \ ExistingNames
        /\ Range(deleteCalls) = ExistingNames \ ExpectedNames
        /\ Cardinality(Range(deleteCalls)) = Len(deleteCalls)
        /\ provRet.err = Nil => Range(needUpdate) = Outdated
        /\ provRet.err # Nil => needUpdate = <<>>

\* A pass that created, deleted and selected pools, and one in which a
\* failed create stopped the creates.
C5_Witness ==
    /\ PoolPassDone
    /\ provRet.err = Nil
    /\ createCalls # <<>> /\ deleteCalls # <<>> /\ needUpdate # <<>>

C5_WitnessFailedCreate ==
    /\ PoolPassDone
    /\ CreateFailed
    /\ Range(createCalls) # ExpectedNames \ ExistingNames

\* managePoolProvision has returned, in a pass that follows a switch of the
\* kind, and GetAllPools of the other kind returned no error.
CleanupDone == ppc = "select" /\ switched /\ cleanListed

\* C10: after the kind of the template is switched, the next pass issues a
\* delete for every live pool of the other kind that the resource owns,
\* whether or not its labels still match the selector.
C10_CrossKindCleanup ==
    CleanupDone => \A o \in otherLive : o \in Range(cleanCalls)

\* What the code does: the delete is issued for the pools of the other kind
\* whose labels match the selector, and for no other.
C10_CleanupOfMatching ==
    CleanupDone => Range(cleanCalls) = {o \in otherLive : o.matches}

C10_Witness ==
    /\ CleanupDone
    /\ cleanCalls # <<>>
    /\ \E o \in otherLive : ~o.matches

\* The live pools are what the topology asks for: the pools of the kind of
\* the template carry exactly the pool names of the topology, every live
\* pool has the target revision label, the desired replicas and the desired
\* patch, and no pool of the other kind is left.
PoolsConverged ==
    /\ {o.pool : o \in {x \in poolStore : x.kind = udKind}} = DOMAIN udPools
    /\ \A o \in poolStore :
          /\ o.kind = udKind
          /\ o.pool \in DOMAIN udPools
          /\ o.revision = udRevision
          /\ o.replicas = udPools[o.pool].Replicas
          /\ o.patch = udPools[o.pool].Patch

\* The running pass has called no CreatePool, UpdatePool or DeletePool.
NoPoolCalls ==
    /\ createCalls = <<>> /\ deleteCalls = <<>>
    /\ cleanCalls = <<>> /\ updateCalls = <<>>

\* Every live object still matches the selector, and no pool asks for a
\* patch that sets another replica count than its own.
NoDriftedLabels == \A o \in poolStore : o.matches

PatchesAgree ==
    \A n \in DOMAIN udPools :
        PoolHasPatch(udPools[n].Patch) =>
            PatchedReplicas(udPools[n].Patch, udPools[n].Replicas)
                = udPools[n].Replicas

\* C11: once the desired state stays unchanged and the store has stopped
\* failing, repeated passes reach a state in which the live pools are what
\* the topology asks for, and from then on no pass creates, updates or
\* deletes a pool.
C11_Convergence == <>[](PoolsConverged /\ NoPoolCalls)

\* The same for the runs in which the labels of the live objects keep
\* matching the selector and the patches agree with the replicas.
C11_ConvergenceOfMatching ==
    [](NoDriftedLabels /\ PatchesAgree) => <>[](PoolsConverged /\ NoPoolCalls)

(***************************************************************************)
(* The revision manager, continued.                                        *)
(***************************************************************************)
\* C12: the store never holds two distinct revisions of the resource with
\* byte-identical content.
C12_ContentUniqueness ==
    \A a, b \in revStore : EqualRevision(a, b) => a = b

\* C13: whenever a pass assigns a sequence number, to a revision it creates
\* or to one it rolls back, the number is strictly greater than that of every
\* other revision in the store at that moment.
C13_SequenceNumbers ==
    [][\A r \in revStore' \ revStore :
          \A o \in revStore' \ {r} : o.revision < r.revision]_vars

\* With a retention limit of at least one the cleaned history keeps the
\* revision with the largest number, and the property of C13 holds.
C13_SequenceNumbersWithPositiveLimit ==
    [][udLimit >= 1 =>
          \A r \in revStore' \ revStore :
             \A o \in revStore' \ {r} : o.revision < r.revision]_vars

\* The collisions counted by createControllerRevision in this pass.
CollisionsCounted ==
    Cardinality({k \in 1..Len(attempts) : attempts[k].resp = "collision"})

\* C14: in every outcome of constructUnitedDeploymentRevisions, success or
\* error, the returned collision count is at least the count of the status,
\* and it includes every collision counted in the pass, also when the pass
\* fails after them.
C14_CollisionCounter ==
    RevDone =>
        /\ revRet.collisionCount >= stCollisionCount
        /\ revRet.collisionCount = stCollisionCount + CollisionsCounted

\* A pass that failed after a collision was counted.
C14_Witness ==
    /\ RevDone
    /\ revRet.err # Nil
    /\ CollisionsCounted >= 1
    /\ revRet.collisionCount > stCollisionCount

\* The history after pruning, as constructUnitedDeploymentRevisions holds it
\* at line 108 of the pass that is running or has just returned.
PostPrune ==
    IF exceedNum <= 0 THEN sortedHistory
    ELSE CleanedRevisions(sortedHistory, exceedNum)

\* The pass got past pruning, and in the pruned history a revision other
\* than the most recent one has the content of the candidate while the most
\* recent one has not.
RollbackCase ==
    /\ RevDone
    /\ revRet.err \notin {<<"list">>, <<"delete">>}
    /\ Len(PostPrune) > 0
    /\ PostPrune[Len(PostPrune)].data # udTemplate
    /\ \E k \in 1..(Len(PostPrune) - 1) : PostPrune[k].data = udTemplate

\* The store after pruning, before the selection of the update revision.
StoreAfterPrune ==
    {r \in Range(sortedHistory) : r.name \notin Range(deletedNames)}

\* C20: in the rollback case the pass creates no revision object and issues
\* exactly one update, which sets the sequence number of a content-identical
\* revision to the candidate's, the largest of the history plus one; that
\* revision is returned as the update revision; when the update fails the
\* pass returns the error.
C20_RollbackPath ==
    RollbackCase =>
        /\ createdNames = {} /\ attempts = <<>>
        /\ Cardinality(updatedNames) = 1
        /\ \E old \in Range(PostPrune) :
              LET bumped == [old EXCEPT
                               !.revision = PostPrune[Len(PostPrune)].revision + 1]
              IN  /\ old.data = udTemplate
                  /\ updatedNames = {old.name}
                  /\ candidate[1].revision = bumped.revision
                  /\ \A r \in StoreAfterPrune : r.revision < bumped.revision
                  /\ IF revRet.err = Nil
                     THEN /\ revRet.update = Ptr(bumped)
                          /\ revStore = (StoreAfterPrune \ {old}) \cup {bumped}
                     ELSE /\ revRet.err = <<"update">>
                          /\ revRet.update = NilPtr
                          /\ revStore = StoreAfterPrune

\* A rollback that succeeded, and one whose update failed.
C20_Witness ==
    /\ RollbackCase
    /\ revRet.err = Nil
    /\ updatedNames # {}
    /\ revRet.update[1].revision > 2

C20_WitnessUpdateFailed == RollbackCase /\ revRet.err = <<"update">>

(***************************************************************************)
(* The pools, continued.                                                   *)
(***************************************************************************)
IsTrue(cond) == cond # NoCondition /\ cond[1].status = "True"

\* C15: in the status managePools returns, PoolProvisioned is True only if
\* managePoolProvision returned no error and PoolUpdated is True only if the
\* update batch returned no error; when managePoolProvision returned an error
\* PoolProvisioned is False with that error as its message, and when the
\* update batch returned an error PoolUpdated is False with that error as its
\* message.
C15_ConditionReporting ==
    [][(ppc # "done" /\ ppc' = "done") =>
          /\ IsTrue(mpRet'.PoolProvisioned) => provRet.err = Nil
          /\ IsTrue(mpRet'.PoolUpdated) =>
                /\ provRet.err = Nil
                /\ ppc = "update" => sbRet[2] = Nil
          /\ provRet.err # Nil =>
                mpRet'.PoolProvisioned =
                    NewUnitedDeploymentCondition("False", "Error", provRet.err)
          /\ (ppc = "update" /\ sbRet[2] # Nil) =>
                mpRet'.PoolUpdated =
                    NewUnitedDeploymentCondition("False", "Error", sbRet[2])]_vars

\* A pass that provisioned without error and whose update batch failed, and
\* a pass whose provisioning failed.
C15_Witness ==
    /\ PoolPassDone
    /\ IsTrue(mpRet.PoolProvisioned)
    /\ mpRet.PoolUpdated # NoCondition
    /\ mpRet.PoolUpdated[1].status = "False"
    /\ mpRet.PoolUpdated[1].message = mpRet.err

C15_WitnessProvisionFailed ==
    /\ PoolPassDone
    /\ provRet.err # Nil
    /\ mpRet.PoolProvisioned # NoCondition
    /\ mpRet.PoolProvisioned[1].status = "False"

\* SlowStartBatch has returned to managePoolProvision with the result of the
\* creates.
CreateBatchReturned == ppc = "create" /\ bpc = "returned"

\* The calls of fn whose CreatePool answered a timeout, and those it answered
\* another error.
CreateTimedOut ==
    {idx \in DOMAIN createResults :
        createResults[idx] \in {"timeout-stored", "timeout-lost"}}
CreateErrored == {idx \in DOMAIN createResults : createResults[idx] = "error"}

\* C17: a create that fails with a timeout is counted by the create batch as
\* a success and adds nothing to the aggregate error; every other create
\* error is returned by fn, is the reason of the error the batch returns, and
\* no batch is started after the batch it happened in.
C17_TimeoutBenign ==
    /\ \A k \in 1..Len(errs) :
          errs[k][1] = "create" =>
             \E idx \in CreateErrored : creates[idx + 1] = errs[k][2]
    /\ CreateBatchReturned =>
          /\ DOMAIN createResults = DOMAIN batchOf
          /\ sbRet[1] = Cardinality(DOMAIN createResults \ CreateErrored)
          /\ \A idx \in CreateTimedOut : fnErr[idx] = Nil
          /\ \A idx \in CreateErrored :
                /\ fnErr[idx] = <<"create", creates[idx + 1]>>
                /\ \A j \in DOMAIN batchOf : batchOf[j] <= batchOf[idx]
          /\ IF CreateErrored = {} THEN sbRet[2] = Nil
             ELSE \E idx \in CreateErrored : sbRet[2] = fnErr[idx]
    /\ (PoolPassDone /\ CreateErrored # {}) =>
          /\ CreateFailed
          /\ provRet.err # Nil

\* A pass in which a create timed out, no create failed otherwise, and
\* provisioning returned no error.
C17_Witness ==
    /\ PoolPassDone
    /\ CreateTimedOut # {}
    /\ Len(createCalls) >= 2
    /\ provRet.err = Nil
    /\ IsTrue(mpRet.PoolProvisioned)

\* A pass in which the first create failed with another error and the
\* second pool was not attempted.
C17_WitnessErrorStops ==
    /\ PoolPassDone
    /\ CreateErrored # {}
    /\ Len(creates) >= 2
    /\ Len(createCalls) = 1

\* The deletes of the pass that failed: DeletePool was called for the pool
\* and its object is still in the store.
DeleteFailed ==
    {k \in 1..Len(deleteCalls) :
        nameToPool[deleteCalls[k]].PoolRef \in poolStore}

\* C16: managePoolProvision calls DeletePool for every pool of the delete
\* list, in the order of the list, also after a failed delete or a failed
\* create batch; every failed delete has its own error in the aggregate
\* error the pass returns.
C16_IndependentDeletes ==
    PoolPassDone =>
        /\ deleteCalls = deletes
        /\ \A k \in DeleteFailed :
              /\ <<"delete", deletes[k]>> \in Range(provRet.err)
              /\ mpRet.err = <<"provision", provRet.err>>
        /\ Cardinality({j \in 1..Len(provRet.err) :
                            provRet.err[j][1] = "delete"})
              = Cardinality(DeleteFailed)

\* A pass in which the first of two deletes failed and the second was still
\* issued, and one in which the create batch failed before the deletes.
C16_Witness ==
    /\ PoolPassDone
    /\ Len(deletes) >= 2
    /\ 1 \in DeleteFailed
    /\ Len(deleteCalls) = 2

C16_WitnessAfterFailedCreate ==
    /\ PoolPassDone
    /\ CreateFailed
    /\ DeleteFailed # {}
    /\ Len(provRet.err) = 2

\* C19: the object ApplyPoolTemplate produces for a create or an update,
\* when it returns no error, carries the replica count of the patch when the
\* patch of the pool sets one, and the replica count passed as argument,
\* nextPatches[name].Replicas, when the pool has no patch.
C19_PatchPrecedence ==
    [][(ppc \in {"create", "update"} /\ applyErrs' = applyErrs) =>
          \A o \in poolStore' \ poolStore :
             /\ udPools[o.pool].Patch = "replicas" =>
                    o.replicas = PatchReplicaCount
             /\ udPools[o.pool].Patch = "" =>
                    o.replicas = udPools[o.pool].Replicas]_vars

\* A pool with a plain replica count of 1 and a patch that sets another
\* count has been created with the count of the patch.
C19_Witness ==
    /\ PoolPassDone
    /\ \E o \in poolStore :
          /\ o.pool \in Range(createCalls)
          /\ o.pool \in DOMAIN udPools
          /\ udPools[o.pool].Patch = "replicas"
          /\ udPools[o.pool].Replicas # PatchReplicaCount
          /\ o.replicas = PatchReplicaCount
          /\ \A idx \in applyErrs : creates[idx + 1] # o.pool

\* The calls of UpdatePool that have returned and in which every attempt
\* failed.
UpdateAllFailed ==
    {idx \in DOMAIN fnErr \cap DOMAIN updateAttempts :
        \A k \in 1..Len(updateAttempts[idx]) : updateAttempts[idx][k] # Nil}

\* C18 as stated: when every attempt of UpdatePool fails, the error it
\* returns is the error of the first failed attempt.
C18_FirstError ==
    ppc = "update" =>
        \A idx \in UpdateAllFailed : fnErr[idx] = updateAttempts[idx][1]

\* C18: when every attempt of UpdatePool fails, the error it returns is the
\* error of the last attempt it made: the Update error of attempt
\* updateRetries, or the Get or ApplyPoolTemplate error of the attempt at
\* which it returned.
C18_LastError ==
    ppc = "update" =>
        \A idx \in UpdateAllFailed :
            LET errors == updateAttempts[idx]
            IN  /\ fnErr[idx] = errors[Len(errors)]
                /\ \/ Len(errors) = updateRetries
                   \/ errors[Len(errors)][1] \in {"get", "apply"}
                /\ \A k \in 1..(Len(errors) - 1) : errors[k][1] = "update"

\* UpdatePool has used all its attempts, every Update failed, and it has
\* returned.
C18_Witness ==
    /\ ppc = "update"
    /\ \E idx \in UpdateAllFailed :
          /\ Len(updateAttempts[idx]) = updateRetries
          /\ updateAttempts[idx][1] # updateAttempts[idx][updateRetries]
          /\ fnErr[idx][1] = "update"

(***************************************************************************)
(* The revision manager: the choice of the update and current revisions.   *)
(***************************************************************************)
\* The largest sequence number of a history, 0 for the empty one.
RECURSIVE MaxRevisionOf(_)
MaxRevisionOf(revs) ==
    IF revs = <<>> THEN 0
    ELSE LET rest == MaxRevisionOf(Tail(revs))
         IN  IF Head(revs).revision > rest THEN Head(revs).revision ELSE rest

\* The pass has got past pruning and built a candidate.
CandidateBuilt == candidate # NilPtr

\* C21: a create of a revision object is attempted only when no revision of
\* the pruned history has the content of the candidate; the candidate's
\* sequence number is the largest of that history plus one, 1 when it is
\* empty; when the most recent revision has the content of the candidate the
\* pass issues no create and no update.
C21_NewRevisionOnlyWhenNeeded ==
    CandidateBuilt =>
        /\ candidate[1].data = udTemplate
        /\ candidate[1].revision = MaxRevisionOf(PostPrune) + 1
        /\ attempts # <<>> =>
              \A k \in 1..Len(PostPrune) : PostPrune[k].data # udTemplate
        /\ (Len(PostPrune) > 0
              /\ PostPrune[Len(PostPrune)].data = udTemplate) =>
              /\ attempts = <<>> /\ createdNames = {} /\ updatedNames = {}
              /\ revStore = StoreAfterPrune

\* A create was attempted over a non-empty pruned history, and the newest
\* revision was reused.
C21_Witness ==
    /\ RevSucceeded
    /\ createdNames # {}
    /\ Len(PostPrune) >= 2
    /\ candidate[1].revision = 3

C21_WitnessReuse ==
    /\ RevSucceeded
    /\ Len(PostPrune) >= 2
    /\ PostPrune[Len(PostPrune)].data = udTemplate
    /\ revRet.update[1] = PostPrune[Len(PostPrune)]

\* The entries of the pruned history named by status.currentRevision.
NamedCurrent ==
    {k \in 1..Len(PostPrune) : PostPrune[k].name = stCurrentRevision}

C22_WitnessFallback ==
    /\ RevSucceeded
    /\ NamedCurrent = {}
    /\ stCurrentRevision # EmptyName
    /\ Len(PostPrune) > 0

\* C28: when the resource selects neither template kind, the pass returns
\* an error with no current and no update revision, and creates and updates
\* no revision object.
C28_NoTemplateIsFatal ==
    (RevDone /\ udTemplate \notin Contents) =>
        /\ revRet.err # Nil
        /\ revRet.current = NilPtr /\ revRet.update = NilPtr
        /\ attempts = <<>> /\ createdNames = {} /\ updatedNames = {}
        /\ revRet.err \notin {<<"list">>, <<"delete">>} =>
              revRet.err = <<"template">>

\* A pass without a template that got past pruning, over a history that
\* is not empty.
C28_Witness ==
    /\ RevDone
    /\ udTemplate \notin Contents
    /\ revRet.err = <<"template">>
    /\ revStore # {}

\* C29: whenever the pass returns successfully, the sequence number of the
\* update revision is at least that of every revision in the store, a
\* current revision that pruning spared included.
C29_UpdateRevisionIsNewest ==
    RevSucceeded =>
        \A r \in revStore : r.revision <= revRet.update[1].revision

\* The revision named by status.currentRevision was in the store, owned by
\* the resource, when the pass listed the history.
CurrentWasStored ==
    \E k \in 1..Len(sortedHistory) : sortedHistory[k].name = stCurrentRevision

\* C30: if the revision named by status.currentRevision is in the store when
\* the pass starts, a successful pass returns that revision as the current
\* revision, also when it is among the oldest entries of a history beyond
\* the retention limit.
C30_PreservedCurrentResolved ==
    (RevSucceeded /\ CurrentWasStored) =>
        revRet.current[1].name = stCurrentRevision

\* The same for the passes in which the history is within the limit, so
\* that nothing is pruned.
C30_ResolvedWithinLimit ==
    (RevSucceeded /\ CurrentWasStored /\ exceedNum <= 0) =>
        revRet.current[1].name = stCurrentRevision

(***************************************************************************)
(* SlowStartBatch, continued.                                              *)
(***************************************************************************)
\* The calls of fn in flight: invoked and not yet returned.
InFlight == Range(invoked) \ DOMAIN fnErr

\* C25: no call of a later batch is started before every call of the
\* batches before it has returned, so the calls in flight all belong to the
\* current batch and are at most as many as its size.
C25_BatchBarrier ==
    /\ \A idx \in DOMAIN batchOf : \A j \in DOMAIN batchOf :
          batchOf[j] < batchOf[idx] => j \in DOMAIN fnErr
    /\ \A idx \in InFlight : batchOf[idx] = Len(batches)
    /\ InFlight # {} => Cardinality(InFlight) <= batches[Len(batches)]

\* Two calls of the third batch are in flight, the calls of the first two
\* batches have returned.
C25_Witness ==
    /\ Len(batches) = 3
    /\ Cardinality(InFlight) >= 2
    /\ Cardinality(DOMAIN fnErr) >= 3

\* The object UpdatePool writes for the pool of fn(idx).
UpdatedObject(idx) ==
    ApplyPoolTemplate(udKind, needUpdate[idx + 1], udRevision,
                      udPools[needUpdate[idx + 1]].Replicas,
                      udPools[needUpdate[idx + 1]].Patch)

\* C23: one call of UpdatePool makes at most updateRetries attempts; an
\* attempt is followed by another one only when its read and its template
\* application succeeded and its Update failed; after the first attempt
\* whose Update succeeds nothing more is read or written, and the object
\* written is the template applied to the pool.
C23_BoundedRetry ==
    ppc = "update" =>
        \A idx \in DOMAIN updateAttempts :
            LET a == updateAttempts[idx]
                n == Len(a)
            IN  /\ n >= 1 /\ n <= updateRetries
                /\ \A k \in 1..(n - 1) : a[k] # Nil /\ a[k][1] = "update"
                /\ idx \in DOMAIN fnErr <=>
                      \/ a[n] = Nil
                      \/ a[n][1] \in {"get", "apply"}
                      \/ n = updateRetries
                /\ a[n] = Nil => UpdatedObject(idx) \in poolStore

\* An update that failed once and succeeded at the second attempt, and one
\* that succeeded at once and made no second attempt.
C23_Witness ==
    /\ ppc = "update"
    /\ \E idx \in DOMAIN updateAttempts \cap DOMAIN fnErr :
          /\ Len(updateAttempts[idx]) = 2
          /\ updateAttempts[idx][1] # Nil
          /\ updateAttempts[idx][2] = Nil
          /\ fnErr[idx] = Nil

C23_WitnessStopsAtSuccess ==
    /\ PoolPassDone
    /\ \E idx \in DOMAIN updateAttempts :
          Len(updateAttempts[idx]) = 1 /\ updateAttempts[idx][1] = Nil

\* The number of times PostUpdate was invoked in fn(idx).
PostUpdateCount(idx) ==
    Cardinality({k \in 1..Len(postUpdates) : postUpdates[k] = idx})

\* C24: UpdatePool invokes PostUpdate exactly once when an Update has been
\* persisted, after it, and never when it ends without a successful Update.
C24_PostUpdateOrdering ==
    ppc = "update" =>
        /\ \A k \in 1..Len(postUpdates) :
              /\ postUpdates[k] \in DOMAIN updateAttempts
              /\ updateAttempts[postUpdates[k]]
                    [Len(updateAttempts[postUpdates[k]])] = Nil
              /\ UpdatedObject(postUpdates[k]) \in poolStore
        /\ \A idx \in DOMAIN updateAttempts :
              LET a == updateAttempts[idx]
              IN  PostUpdateCount(idx) = IF a[Len(a)] = Nil THEN 1 ELSE 0

\* One call persisted its update and invoked PostUpdate, another ended
\* without a successful update and did not.
C24_Witness ==
    /\ ppc = "update"
    /\ \E idx \in DOMAIN fnErr : PostUpdateCount(idx) = 1
    /\ \E idx \in DOMAIN fnErr : fnErr[idx] # Nil /\ PostUpdateCount(idx) = 0

(***************************************************************************)
(* managePools: the sets of one pass.                                      *)
(***************************************************************************)
\* A pass of managePools is under way or has just returned.
InPass == ppc \notin {"off", "idle"}

\* The pools this pass created that are live in the store.
CreatedLive ==
    {o.pool : o \in {w \in ListWorkloads(poolStore, udKind) :
                        w.pool \in Range(createCalls)}}

\* A sequence without a repeated element.
NoRepeat(seq) == Cardinality(Range(seq)) = Len(seq)

\* C26: during a pass the creates and the deletes are the two differences
\* of the topology and the snapshot handed to managePools, the pools
\* selected for update are outdated pools of that snapshot, the calls made
\* are calls for these sets, so a pool created in the pass is not in the
\* snapshot and is never updated in the pass, and no pool receives more
\* than one of create, update and delete.
C26_OneSnapshotPerPass ==
    InPass =>
        /\ Range(creates) = ExpectedNames \ ExistingNames
        /\ Range(deletes) = ExistingNames \ ExpectedNames
        /\ Range(needUpdate) \subseteq Outdated
        /\ Range(createCalls) \subseteq Range(creates)
        /\ Range(deleteCalls) \subseteq Range(deletes)
        /\ Range(updateCalls) \subseteq Range(needUpdate)
        /\ NoRepeat(createCalls) /\ NoRepeat(deleteCalls)
        /\ NoRepeat(updateCalls)
        /\ CreatedLive \cap Range(needUpdate) = {}
        /\ Range(createCalls) \cap Range(updateCalls) = {}
        /\ Range(createCalls) \cap Range(deleteCalls) = {}
        /\ Range(deleteCalls) \cap Range(updateCalls) = {}

\* A finished pass that created a pool, which is live and was not in the
\* snapshot, deleted a pool and updated a pool.
C26_Witness ==
    /\ PoolPassDone
    /\ CreatedLive # {} /\ CreatedLive \cap ExistingNames = {}
    /\ deleteCalls # <<>> /\ updateCalls # <<>>

(***************************************************************************)
(* managePoolProvision: the values returned.                               *)
(***************************************************************************)
\* managePoolProvision has returned.
ProvisionReturned == ppc \in {"select", "update", "done"}

\* The number of errors of one step in the error list of the pass.
ErrCount(step) == Cardinality({k \in 1..Len(errs) : errs[k][1] = step})

\* A create, a delete or a delete of the cleanup was issued in the pass.
SomethingAttempted ==
    createCalls # <<>> \/ deleteCalls # <<>> \/ cleanCalls # <<>>

\* A pool was created or deleted in the pass: a create stored its object, or
\* a delete of the delete list or of the cleanup succeeded.
SomethingChanged ==
    \/ \E idx \in DOMAIN createResults :
          createResults[idx] \in {"ok", "timeout-stored"}
    \/ ErrCount("delete") < Len(deleteCalls)
    \/ ErrCount("clean") < Len(cleanCalls)

\* C27 as stated: the boolean managePoolProvision returns is true exactly
\* when a pool was created, deleted or cleaned up in the pass, and the name
\* set returned is the intersection of the expected and the existing names.
C27_ChangedFlagAsStated ==
    ProvisionReturned =>
        /\ provRet.provisioned <=> SomethingChanged
        /\ provRet.exists = ExpectedNames \cap ExistingNames

\* C27 amended: the boolean is true exactly when a create, a delete or a
\* delete of the cross-kind cleanup was issued in the pass, whether or not
\* it succeeded, which is exactly when the topology and the snapshot differ
\* in their names or the cleanup found a pool; the name set returned is the
\* intersection of the expected and the existing names.
C27_ChangedFlag ==
    ProvisionReturned =>
        /\ provRet.provisioned <=> SomethingAttempted
        /\ provRet.provisioned <=>
              \/ ExpectedNames # ExistingNames
              \/ cleanCalls # <<>>
        /\ SomethingChanged => provRet.provisioned
        /\ provRet.exists = ExpectedNames \cap ExistingNames

\* The flag is true for a cleanup alone, with a non-empty intersection; the
\* flag is false in a pass that issued nothing; the flag is true in a pass
\* whose only delete failed.
C27_Witness ==
    /\ ProvisionReturned
    /\ provRet.provisioned
    /\ creates = <<>> /\ deletes = <<>> /\ cleanCalls # <<>>
    /\ provRet.exists # {}

C27_WitnessUnchanged ==
    /\ ProvisionReturned
    /\ ~provRet.provisioned
    /\ provRet.exists # {}

C27_WitnessNothingChanged ==
    /\ ProvisionReturned
    /\ provRet.provisioned
    /\ ~SomethingChanged

(***************************************************************************)
(* managePools: the conditions of the status returned.                     *)
(***************************************************************************)
\* The status of the conditions in the newStatus managePools returns.
ReturnedProvisioned == NewStatusOf(stProvisioned, mpRet.PoolProvisioned)
ReturnedUpdated == NewStatusOf(stUpdated, mpRet.PoolUpdated)

\* C31: whenever managePoolProvision returns no error, the status
\* managePools returns has PoolProvisioned = True, also in a pass that had
\* nothing to create, delete or clean up.
C31_CleanPassClearsFailure ==
    (PoolPassDone /\ provRet.err = Nil) => ReturnedProvisioned = "True"

\* What the code does: the condition is set to True when provisioning
\* returned no error and issued a create, a delete or a cleanup; otherwise
\* the pass without error returns the condition ud.Status had.
C31_ClearedWhenProvisioned ==
    (PoolPassDone /\ provRet.err = Nil) =>
        ReturnedProvisioned =
            IF provRet.provisioned THEN "True" ELSE stProvisioned

\* A pass whose provisioning succeeded with nothing to do returns the
\* PoolProvisioned = False that an earlier failed pass left.
C31_StaleFailureSurvives ==
    /\ PoolPassDone /\ provRet.err = Nil
    /\ stProvisioned = "False"
    /\ ReturnedProvisioned = "False"

\* C32: when managePoolProvision returns an error, managePools selects no
\* pool for update and calls UpdatePool for none, returns the PoolUpdated
\* condition ud.Status had, and returns an error, which carries the error
\* of managePoolProvision.
C32_UpdatesWaitForProvisioning ==
    (ProvisionReturned /\ provRet.err # Nil) =>
        /\ ppc # "update"
        /\ needUpdate = <<>> /\ updateCalls = <<>>
        /\ updateAttempts = EmptyMap /\ postUpdates = <<>>
        /\ PoolPassDone =>
              /\ mpRet.PoolUpdated = NoCondition
              /\ ReturnedUpdated = stUpdated
              /\ mpRet.err # Nil
              /\ mpRet.err = <<"provision", provRet.err>>

\* A pass whose provisioning failed while a live pool was outdated and
\* ud.Status had PoolUpdated = True.
C32_Witness ==
    /\ PoolPassDone /\ provRet.err # Nil
    /\ Outdated # {}
    /\ stUpdated = "True"

\* The same with PoolUpdated = False in ud.Status, after a failed delete.
C32_WitnessFailedDelete ==
    /\ PoolPassDone /\ provRet.err # Nil
    /\ \E k \in 1..Len(errs) : errs[k][1] = "delete"
    /\ Outdated # {}
    /\ stUpdated = "False"

(***************************************************************************)
(* CreatePool and a failed ApplyPoolTemplate.                              *)
(***************************************************************************)
\* C33: when ApplyPoolTemplate fails in CreatePool, CreatePool returns an
\* error to fn and issues no Create to the store.
C33_NoHalfBuiltCreate ==
    ppc = "create" =>
        \A idx \in applyErrs :
            /\ idx \notin DOMAIN createResults
            /\ idx \in DOMAIN fnErr => fnErr[idx] # Nil

\* What the code does: Create is issued in every call of CreatePool, and
\* its answer alone decides what fn returns.
C33_CreateAlwaysIssued ==
    ppc = "create" =>
        /\ applyErrs \subseteq DOMAIN createResults
        /\ \A idx \in DOMAIN fnErr :
              fnErr[idx] = CreateFnErr(creates[idx + 1], createResults[idx])

\* A create whose ApplyPoolTemplate failed returned nil, and the object
\* without the patch of its pool is live.
C33_HalfBuiltStored ==
    /\ ppc = "create"
    /\ \E idx \in applyErrs \cap DOMAIN fnErr :
          /\ fnErr[idx] = Nil
          /\ createResults[idx] = "ok"
          /\ HalfBuilt(udKind, creates[idx + 1], udRevision,
                       udPools[creates[idx + 1]].Replicas) \in poolStore
          /\ PoolHasPatch(udPools[creates[idx + 1]].Patch)

(***************************************************************************)
(* UpdatePool: a failed Get or ApplyPoolTemplate.                          *)
(***************************************************************************)
\* The attempt failed in Get or in ApplyPoolTemplate.
ReadOrApplyFailed(err) == err # Nil /\ err[1] \in {"get", "apply"}

\* The last attempt UpdatePool has made in fn(idx).
LastAttempt(idx) == updateAttempts[idx][Len(updateAttempts[idx])]

\* C34, in every state of the updates: an attempt that failed in Get or in
\* ApplyPoolTemplate is the last attempt of its call, the call has returned
\* that error and PostUpdate was not invoked in it; every attempt followed
\* by another one failed in Update.
C34_State ==
    ppc = "update" =>
        \A idx \in DOMAIN updateAttempts :
            LET a == updateAttempts[idx]
            IN  /\ \A k \in 1..Len(a) :
                      ReadOrApplyFailed(a[k]) => k = Len(a)
                /\ \A k \in 1..(Len(a) - 1) :
                      a[k] # Nil /\ a[k][1] = "update"
                /\ ReadOrApplyFailed(a[Len(a)]) =>
                      /\ idx \in DOMAIN fnErr
                      /\ fnErr[idx] = a[Len(a)]
                      /\ PostUpdateCount(idx) = 0

\* C34, in every step of the updates: the attempt that fails in Get or in
\* ApplyPoolTemplate writes nothing to the store, and a call that has
\* returned makes no further attempt.
C34_Step ==
    (ppc = "update" /\ ppc' = "update") =>
        \A idx \in DOMAIN updateAttempts' :
            /\ (/\ AttemptsOf(idx) # updateAttempts'[idx]
                /\ ReadOrApplyFailed(
                       updateAttempts'[idx][Len(updateAttempts'[idx])]))
                  => poolStore' = poolStore /\ postUpdates' = postUpdates
            /\ idx \in DOMAIN fnErr =>
                  AttemptsOf(idx) = updateAttempts'[idx]

\* C34: a failure of Get or of ApplyPoolTemplate in any attempt ends
\* UpdatePool at once with that error, with no update issued in the attempt,
\* no further attempt and no PostUpdate; only a failed Update is retried.
C34_ReadOrApplyFailureEnds == []C34_State /\ [][C34_Step]_vars

\* A call whose first Update failed and whose second attempt failed in Get,
\* and a call that ended at a first attempt failed in ApplyPoolTemplate.
C34_Witness ==
    /\ ppc = "update"
    /\ \E idx \in DOMAIN updateAttempts \cap DOMAIN fnErr :
          /\ Len(updateAttempts[idx]) = 2
          /\ updateAttempts[idx][1] # Nil
          /\ updateAttempts[idx][1][1] = "update"
          /\ ReadOrApplyFailed(updateAttempts[idx][2])
          /\ updateAttempts[idx][2][1] = "get"
          /\ fnErr[idx] = updateAttempts[idx][2]

C34_WitnessApply ==
    /\ ppc = "update"
    /\ \E idx \in DOMAIN updateAttempts \cap DOMAIN fnErr :
          /\ Len(updateAttempts[idx]) = 1
          /\ ReadOrApplyFailed(updateAttempts[idx][1])
          /\ updateAttempts[idx][1][1] = "apply"
          /\ fnErr[idx] = updateAttempts[idx][1]

(***************************************************************************)
(* One live object per pool.                                               *)
(***************************************************************************)
\* The live objects of a kind that ud owns and that carry the pool name.
OwnedOf(store, kind, poolName) ==
    {o \in store : o.kind = kind /\ o.pool = poolName}

\* C35, in every state: while the store is changed by the passes only, no
\* two live objects of the kind of the template that ud owns carry the same
\* pool name.
C35_State ==
    NoDriftedLabels =>
        \A n \in PoolNames : Cardinality(OwnedOf(poolStore, udKind, n)) <= 1

\* C35, in every step: a Create that takes effect in the store, answered
\* with nil or with a timeout, is a Create for a pool name that no live
\* object of the kind carries.
C35_Step ==
    (ppc = "create" /\ NoDriftedLabels) =>
        \A idx \in DOMAIN createResults' \ DOMAIN createResults :
            createResults'[idx] \in {"ok", "timeout-stored"} =>
                OwnedOf(poolStore, udKind, creates[idx + 1]) = {}

C35_WitnessNextPass ==
    /\ PoolPassDone /\ NoDriftedLabels
    /\ edits = 0 /\ faults > 0
    /\ createCalls = <<>>
    /\ ExistingNames = ExpectedNames /\ Cardinality(ExistingNames) >= 2

\* With labels edited so that a live object no longer matches the selector,
\* a pass creates a second object for the pool of that object.
C35_DriftedDuplicate ==
    \E n \in PoolNames : Cardinality(OwnedOf(poolStore, udKind, n)) >= 2

(***************************************************************************)
(* createControllerRevision: the loop ends.                                *)
(***************************************************************************)
\* The revisions the store held when createControllerRevision was called.
ExistingAtEntry == {r \in revStore : r.name \notin createdNames}

\* createControllerRevision is running or has returned.
InCreateLoop == rpc = "create" \/ (rpc = "done" /\ attempts # <<>>)

\* C36: every Create attempt but the last one met a stored revision of
\* another content under a name no earlier attempt of the call had; the
\* last one created the revision, returned an identical one or returned an
\* error; so the call returns after at most one attempt more than there
\* are revisions in the store.
C36_CollisionLoopTerminates ==
    InCreateLoop =>
        /\ Len(attempts) <= Cardinality(ExistingAtEntry) + 1
        /\ \A k \in 1..Len(attempts) :
              IF attempts[k].resp = "collision"
              THEN /\ attempts[k].name \in StoreNames(ExistingAtEntry)
                   /\ \A j \in 1..(k - 1) :
                         attempts[j].name # attempts[k].name
              ELSE /\ k = Len(attempts)
                   /\ rpc = "done"
                   /\ attempts[k].resp \in
                         {"created", "identical", "error", "geterror"}
        /\ rpc = "create" =>
              Cardinality({attempts[k].name : k \in 1..Len(attempts)})
                  = Len(attempts)

\* Two collisions in a store of two revisions, and the third attempt
\* created the revision.
C36_Witness ==
    /\ rpc = "done"
    /\ Len(attempts) = 3
    /\ attempts[3].resp = "created"
    /\ Cardinality(ExistingAtEntry) = 2
====
